---- MODULE Spec2Model ----
(***************************************************************************)
(* Verification model of the schwab_app strategy engines, their shared     *)
(* "amount -> shares -> order" execution step, the rebalance decision      *)
(* engine, the validation layer and the CLI / dashboard entry points.      *)
(*                                                                         *)
(* Numbers.  Python floats are modelled by exact rationals [n, d] with     *)
(* d > 0 (dollar amounts, weights, thresholds); quoted prices, market      *)
(* values and balances are integers of the same money unit.                *)
(* Symbols are tuples of one-character strings so that strip / upper /     *)
(* the [A-Z]{1,5} pattern are computed, not assumed.                       *)
(***************************************************************************)
EXTENDS Integers, Sequences, FiniteSets, TLC

\* ------------------------------------------------------------------ bounds
\* longest symbol list handed to a strategy engine
MaxSymbols == 2
\* longest position list the gateway returns
MaxPositions == 2
\* SchwabClient objects built over one token file
MaxConstructions == 2

\* ------------------------------------------------------------ exact numbers
Abs(x) == IF x < 0 THEN -x ELSE x

Rat(n, d) == [n |-> n, d |-> d]

RInt(i) == [n |-> i, d |-> 1]

RLess(a, b) == a.n * b.d < b.n * a.d

RLeq(a, b) == a.n * b.d <= b.n * a.d

REq(a, b) == a.n * b.d = b.n * a.d

RSub(a, b) == [n |-> a.n * b.d - b.n * a.d, d |-> a.d * b.d]

RAdd(a, b) == [n |-> a.n * b.d + b.n * a.d, d |-> a.d * b.d]

RAbs(a) == [n |-> Abs(a.n), d |-> a.d]

RMulInt(a, i) == [n |-> a.n * i, d |-> a.d]

\* a / i for an integer i # 0 (Python true division)
RDivInt(a, i) == IF i > 0 THEN [n |-> a.n, d |-> a.d * i] ELSE [n |-> -a.n, d |-> a.d * (-i)]

\* mutant: the quotient rounded up instead of truncated
PyIntRoundingUp(a) == IF a.n >= 0 THEN (a.n + a.d - 1) \div a.d ELSE -((-a.n) \div a.d)

\* Python int(x): truncation toward zero
PyInt(a) == IF a.n >= 0 THEN a.n \div a.d ELSE -((-a.n) \div a.d)

\* ------------------------------------------------------------------ symbols
SPY == <<"S", "P", "Y">>

QQQ == <<"Q", "Q", "Q">>

AGG == <<"A", "G", "G">>

Tickers == {SPY, QQQ, AGG}

\* ----------------------------------------------------------------- strings
\* a string is a tuple of one-character strings
Lowers == <<"a", "b", "c", "d", "e", "f", "g", "h", "i", "j", "k", "l", "m", "n", "o", "p", "q", "r", "s", "t", "u", "v", "w", "x", "y", "z">>

Uppers == <<"A", "B", "C", "D", "E", "F", "G", "H", "I", "J", "K", "L", "M", "N", "O", "P", "Q", "R", "S", "T", "U", "V", "W", "X", "Y", "Z">>

UpperChar(c) == IF \E i \in 1..26 : Lowers[i] = c THEN Uppers[CHOOSE i \in 1..26 : Lowers[i] = c] ELSE c

\* str.upper
RECURSIVE StrUpper(_)
StrUpper(str) == IF Len(str) = 0 THEN <<>> ELSE <<UpperChar(Head(str))>> \o StrUpper(Tail(str))

IsSpace(c) == c = " "

\* str.strip
RECURSIVE StrStrip(_)
StrStrip(str) ==
  IF Len(str) = 0 THEN <<>>
  ELSE IF IsSpace(Head(str)) THEN StrStrip(Tail(str))
  ELSE IF IsSpace(str[Len(str)]) THEN StrStrip(SubSeq(str, 1, Len(str) - 1))
  ELSE str

\* str.split(','): the pieces between commas, empty pieces kept
RECURSIVE StrSplit(_, _)
StrSplit(str, piece) ==
  IF Len(str) = 0 THEN <<piece>>
  ELSE IF Head(str) = "," THEN <<piece>> \o StrSplit(Tail(str), <<>>)
  ELSE StrSplit(Tail(str), Append(piece, Head(str)))

\* re.match(r'^[A-Z]{1,5}$', symbol)
MatchesSymbolPattern(str) == Len(str) \in 1..5 /\ \A i \in 1..Len(str) : \E k \in 1..26 : Uppers[k] = str[i]

\* ------------------------------------------------------------- validation
\* an optional value (None when some is FALSE)
None == [some |-> FALSE]

Some(v) == [some |-> TRUE, v |-> v]

\* a validator either returns a value or raises ValidationError
Returned(v) == [ok |-> TRUE, value |-> v]

ValidationError == [ok |-> FALSE]

\* float('inf'), a value math.isfinite rejects
Inf == [n |-> 1, d |-> 0]

\* math.isfinite: inf and nan are the records with d = 0
IsFinite(a) == a.d # 0

RECURSIVE GCD(_, _)
GCD(a, b) == IF b = 0 THEN a ELSE GCD(b, a % b)

\* the same number in lowest terms
RNorm(a) == LET g == GCD(Abs(a.n), a.d) IN IF g = 0 THEN a ELSE [n |-> a.n \div g, d |-> a.d \div g]

\* round half to even of the non-negative quotient n / d
RoundHalfEven(n, d) ==
  LET fl == n \div d
      twice == 2 * (n % d)
  IN IF twice < d THEN fl
     ELSE IF twice > d THEN fl + 1
     ELSE IF fl % 2 = 0 THEN fl ELSE fl + 1

\* round(x, digits) for x >= 0, scale = 10^digits
RoundTo(a, scale) == RNorm([n |-> RoundHalfEven(a.n * scale, a.d), d |-> scale])

\* validate_amount
ValidateAmount(amount, min_amount, max_amount) ==
  IF ~amount.some THEN ValidationError
  ELSE IF ~IsFinite(amount.v) THEN ValidationError
  ELSE IF RLeq(amount.v, RInt(0)) THEN ValidationError
  ELSE IF RLess(amount.v, min_amount) THEN ValidationError
  ELSE IF RLess(max_amount, amount.v) THEN ValidationError
  ELSE Returned(RoundTo(amount.v, 100))

\* validate_symbol
ValidateSymbol(symbol) ==
  LET cleaned == StrUpper(StrStrip(symbol))
  IN IF Len(cleaned) = 0 THEN ValidationError
     ELSE IF Len(cleaned) < 1 \/ Len(cleaned) > 5 THEN ValidationError
     ELSE IF ~MatchesSymbolPattern(cleaned) THEN ValidationError
     ELSE Returned(cleaned)

\* [s for s in symbols if s]
RECURSIVE DropEmpty(_)
DropEmpty(list) ==
  IF Len(list) = 0 THEN <<>>
  ELSE (IF Len(Head(list)) = 0 THEN <<>> ELSE <<Head(list)>>) \o DropEmpty(Tail(list))

\* validate_symbols on a list argument
ValidateSymbols(symbols, min_count, max_count) ==
  LET symbol_list == DropEmpty(symbols)
      each == [i \in 1..Len(symbol_list) |-> ValidateSymbol(symbol_list[i])]
      validated_symbols == [i \in 1..Len(symbol_list) |-> each[i].value]
  IN IF Len(symbol_list) < min_count THEN ValidationError
     ELSE IF Len(symbol_list) > max_count THEN ValidationError
     ELSE IF \E i \in 1..Len(symbol_list) : ~each[i].ok THEN ValidationError
     ELSE IF \E i, j \in 1..Len(symbol_list) : i # j /\ validated_symbols[i] = validated_symbols[j]
       THEN ValidationError
     ELSE Returned(validated_symbols)

\* validate_threshold
ValidateThreshold(threshold, min_threshold, max_threshold) ==
  IF ~threshold.some THEN ValidationError
  ELSE IF ~IsFinite(threshold.v) THEN ValidationError
  ELSE IF RLess(threshold.v, min_threshold) THEN ValidationError
  ELSE IF RLess(max_threshold, threshold.v) THEN ValidationError
  ELSE Returned(RoundTo(threshold.v, 1000000))

\* validated_allocation[validated_symbol] = validated_percentage on a dict
\* kept as the sequence of its items in insertion order
AllocationSet(allocation, symbol, pct) ==
  IF \E i \in 1..Len(allocation) : allocation[i].symbol = symbol
    THEN [i \in 1..Len(allocation) |-> IF allocation[i].symbol = symbol THEN [symbol |-> symbol, pct |-> pct] ELSE allocation[i]]
    ELSE Append(allocation, [symbol |-> symbol, pct |-> pct])

\* the loop of validate_allocation over allocation.items()
RECURSIVE ValidateEntries(_, _, _, _)
ValidateEntries(allocation, i, validated_allocation, total) ==
  IF i > Len(allocation) THEN [ok |-> TRUE, value |-> validated_allocation, total |-> total]
  ELSE LET validated_symbol == ValidateSymbol(allocation[i].symbol)
           percentage == allocation[i].pct
           validated_percentage == RoundTo(percentage, 1000000)
       IN IF ~validated_symbol.ok THEN ValidationError
          ELSE IF ~IsFinite(percentage) THEN ValidationError
          ELSE IF RLeq(percentage, RInt(0)) \/ RLess(RInt(1), percentage) THEN ValidationError
          ELSE ValidateEntries(allocation, i + 1,
                               AllocationSet(validated_allocation, validated_symbol.value, validated_percentage),
                               RNorm(RAdd(total, validated_percentage)))

\* validate_allocation on a dictionary argument
ValidateAllocation(allocation, require_sum_to_one, tolerance) ==
  LET entries == ValidateEntries(allocation, 1, <<>>, RInt(0))
  IN IF Len(allocation) = 0 THEN ValidationError
     ELSE IF Len(allocation) > 100 THEN ValidationError
     ELSE IF ~entries.ok THEN ValidationError
     ELSE IF require_sum_to_one /\ ~(RLeq(RSub(RInt(1), tolerance), entries.total) /\ RLeq(entries.total, RAdd(RInt(1), tolerance)))
       THEN ValidationError
     ELSE Returned(entries.value)

\* defaults of validate_allocation and validate_threshold
Tolerance == Rat(1, 1000)

DefaultMinThreshold == RInt(0)

DefaultMaxThreshold == RInt(1)

\* defaults of validate_amount, validate_symbols and the bounds the entry points pass to validate_threshold
MinAmount == Rat(1, 100)

MaxAmount == RInt(1000000)

MinCount == 1

MaxCount == 50

MinThreshold == Rat(1, 1000)

MaxThreshold == Rat(1, 2)

\* ------------------------------------------------- gateway response spaces
\* client.get_quote: raises, or returns a quote whose lastPrice may be absent
LastPrices == {-10, 0, 4, 10}

QuoteResponses == {[ok |-> FALSE, present |-> FALSE, lastPrice |-> 0]} \cup {[ok |-> TRUE, present |-> FALSE, lastPrice |-> 0]} \cup {[ok |-> TRUE, present |-> TRUE, lastPrice |-> p] : p \in LastPrices}

\* client.place_order: raises, or returns the order id of the Location header
PlaceResponses == {[ok |-> FALSE, order_id |-> "None"], [ok |-> TRUE, order_id |-> "1001"]}

\* quote.get("lastPrice", 0)
QuoteLastPrice(q) == IF q.present THEN q.lastPrice ELSE 0

\* ---------------------------------------------------------------- state
VARIABLES pc, strategy, dry_run, work, idx, params, results, origin, gateway, frames, request, env, loaded, token_file, temp_files, client, auth, crypt, audit_log, consent, audit, race

vars == <<pc, strategy, dry_run, work, idx, params, results, origin, gateway, frames, request, env, loaded, token_file, temp_files, client, auth, crypt, audit_log, consent, audit, race>>

\* what a strategy invocation works on
engine == <<pc, strategy, dry_run, work, idx, params, results, origin, gateway, frames, request>>

\* what no strategy invocation touches: the environment, what Config loaded
\* from it, the token file, the temporary files, the SchwabClient object,
\* the TokenEncryption functions in use, and the audit log
beyond == <<env, loaded, token_file, temp_files, client, auth, crypt, audit_log, audit, race>>

\* the same with the answer given at the confirmation prompt of the CLI
outside == <<beyond, consent>>

\* what entered the process (a CLI command or a dashboard request) and how it ended
Request(via, command, outcome, validation_error) == [via |-> via, command |-> command, outcome |-> outcome, validation_error |-> validation_error]

NoRequest == Request("none", "none", "none", FALSE)

\* gateway log entries
QuoteCall(e, symbol, q) == [op |-> "get_quote", elem |-> e, symbol |-> symbol, ok |-> q.ok, price |-> QuoteLastPrice(q)]

PlaceCall(e, symbol, instruction, quantity, po) == [op |-> "place_order", elem |-> e, symbol |-> symbol, ok |-> po.ok, instruction |-> instruction, quantity |-> quantity]

\* locals of one run of the execution step (its stack frame)
Frame(e, symbol, amount, quoted, price, computed, shares, raised) == [elem |-> e, symbol |-> symbol, amount |-> amount, quoted |-> quoted, price |-> price, computed |-> computed, shares |-> shares, raised |-> raised]

\* the entry a per-symbol loop appends when the step raised
FailedResult(symbol, error) == [symbol |-> symbol, status |-> "failed", error |-> error]

\* ------------------------------------------------------------------- DCA
\* DCAStrategy._invest_in_symbol
InvestInSymbol(e, symbol, amount, dry, q, po) ==
  LET last_price == QuoteLastPrice(q)
      shares == PyInt(RDivInt(amount, last_price))
  IN IF ~q.ok
       THEN [raised |-> TRUE, error |-> "gateway", calls |-> <<QuoteCall(e, symbol, q)>>,
             frame |-> Frame(e, symbol, amount, FALSE, 0, FALSE, 0, TRUE)]
     ELSE IF last_price = 0
       THEN [raised |-> TRUE, error |-> "Invalid price", calls |-> <<QuoteCall(e, symbol, q)>>,
             frame |-> Frame(e, symbol, amount, TRUE, last_price, FALSE, 0, TRUE)]
     ELSE IF shares = 0
       THEN [raised |-> FALSE, calls |-> <<QuoteCall(e, symbol, q)>>,
             result |-> [symbol |-> symbol, status |-> "skipped", reason |-> "amount too small",
                         amount |-> amount, price |-> last_price],
             frame |-> Frame(e, symbol, amount, TRUE, last_price, TRUE, shares, FALSE)]
     ELSE IF dry
       THEN [raised |-> FALSE, calls |-> <<QuoteCall(e, symbol, q)>>,
             result |-> [symbol |-> symbol, status |-> "dry_run", shares |-> shares,
                         price |-> last_price, amount |-> shares * last_price],
             frame |-> Frame(e, symbol, amount, TRUE, last_price, TRUE, shares, FALSE)]
     ELSE IF ~po.ok
       THEN [raised |-> TRUE, error |-> "gateway",
             calls |-> <<QuoteCall(e, symbol, q), PlaceCall(e, symbol, "BUY", shares, po)>>,
             frame |-> Frame(e, symbol, amount, TRUE, last_price, TRUE, shares, TRUE)]
     ELSE [raised |-> FALSE,
           calls |-> <<QuoteCall(e, symbol, q), PlaceCall(e, symbol, "BUY", shares, po)>>,
           result |-> [symbol |-> symbol, status |-> "success", shares |-> shares,
                       price |-> last_price, amount |-> shares * last_price,
                       order_id |-> po.order_id],
           frame |-> Frame(e, symbol, amount, TRUE, last_price, TRUE, shares, FALSE)]

\* mutant: the dry_run flag is not handed on to the step
DCAIterateIgnoringDryRun(e, symbol, amount, dry, q, po) ==
  LET r == InvestInSymbol(e, symbol, amount, FALSE, q, po)
  IN [results |-> <<IF r.raised THEN FailedResult(symbol, r.error) ELSE r.result>>,
      calls |-> r.calls, frames |-> <<r.frame>>]

\* mutant: a failed step is attempted a second time
DCAIterateRetrying(e, symbol, amount, dry, q, po) ==
  LET r == InvestInSymbol(e, symbol, amount, dry, q, po)
  IN [results |-> <<IF r.raised THEN FailedResult(symbol, r.error) ELSE r.result>>,
      calls |-> IF r.raised THEN r.calls \o r.calls ELSE r.calls, frames |-> <<r.frame>>]

\* one iteration of "for symbol in symbols" (try / except included)
DCAIterate(e, symbol, amount, dry, q, po) ==
  LET r == InvestInSymbol(e, symbol, amount, dry, q, po)
  IN [results |-> <<IF r.raised THEN FailedResult(symbol, r.error) ELSE r.result>>,
      calls |-> r.calls, frames |-> <<r.frame>>]

\* ------------------------------------------------------------- Rebalance
\* client.get_positions: raises, or the account's position list
PositionsResponse(ok, positions) == [ok |-> ok, positions |-> positions]

\* client.get_account_balances: raises, or currentBalances (absent keys read as 0)
BalancesResponse(ok, liq, cash) == [ok |-> ok, liquidationValue |-> liq, cashAvailableForTrading |-> cash]

PositionsCall(r) == [op |-> "get_positions", elem |-> 0, ok |-> r.ok]

BalancesCall(r) == [op |-> "get_account_balances", elem |-> 0, ok |-> r.ok, liquidationValue |-> r.liquidationValue]

\* a Python dict with one more key assigned
DictSet(dict, k, v) == [x \in DOMAIN dict \cup {k} |-> IF x = k THEN v ELSE dict[x]]

EmptyDict == [x \in {} |-> 0]

\* RebalanceStrategy._calculate_current_allocation, the loop over positions
RECURSIVE AllocationLoop(_, _, _, _)
AllocationLoop(positions, i, total_value, allocation) ==
  IF i > Len(positions) THEN allocation
  ELSE LET position == positions[i]
       IN AllocationLoop(positions, i + 1, total_value,
            IF position.marketValue > 0
              THEN DictSet(allocation, position.symbol, RDivInt(RInt(position.marketValue), total_value))
              ELSE allocation)

\* RebalanceStrategy._calculate_current_allocation
CalculateCurrentAllocation(positions, balances) ==
  LET total_value == balances.liquidationValue
  IN IF total_value = 0 THEN EmptyDict
     ELSE AllocationLoop(positions, 1, total_value, EmptyDict)

\* current.get(symbol, 0)
DictGet(dict, k) == IF k \in DOMAIN dict THEN dict[k] ELSE RInt(0)

\* mutant: an action already at deviation = threshold
RebalancingActionAtThreshold(current, item, threshold) ==
  LET symbol == item.symbol
      target_pct == item.pct
      current_pct == DictGet(current, symbol)
      deviation == RAbs(RSub(current_pct, target_pct))
  IN IF RLeq(threshold, deviation)
       THEN <<[symbol |-> symbol, current_allocation |-> current_pct,
               target_allocation |-> target_pct, deviation |-> deviation,
               action |-> IF RLess(current_pct, target_pct) THEN "buy" ELSE "sell"]>>
       ELSE <<>>

\* RebalanceStrategy._calculate_rebalancing_actions, the body of its loop:
\* the actions (none or one) the item (symbol, target_pct) contributes
RebalancingAction(current, item, threshold) ==
  LET symbol == item.symbol
      target_pct == item.pct
      current_pct == DictGet(current, symbol)
      deviation == RAbs(RSub(current_pct, target_pct))
  IN IF RLess(threshold, deviation)
       THEN <<[symbol |-> symbol, current_allocation |-> current_pct,
               target_allocation |-> target_pct, deviation |-> deviation,
               action |-> IF RLess(current_pct, target_pct) THEN "buy" ELSE "sell"]>>
       ELSE <<>>

\* RebalanceStrategy._calculate_rebalancing_actions; target is the ordered
\* dict, a sequence of [symbol, pct] items in iteration order
RECURSIVE CalculateRebalancingActions(_, _, _, _)
CalculateRebalancingActions(current, target, threshold, i) ==
  IF i > Len(target) THEN <<>>
  ELSE RebalancingAction(current, target[i], threshold)
         \o CalculateRebalancingActions(current, target, threshold, i + 1)

\* a sizing that keeps the sign of target value minus current value
TradeValueSigned(total_value, action) ==
  LET target_value == RMulInt(action.target_allocation, total_value)
      current_value == RMulInt(action.current_allocation, total_value)
  IN RSub(target_value, current_value)

\* RebalanceStrategy._execute_rebalancing, the sizing of one action
TradeValue(total_value, action) ==
  LET target_value == RMulInt(action.target_allocation, total_value)
      current_value == RMulInt(action.current_allocation, total_value)
  IN RAbs(RSub(target_value, current_value))

\* RebalanceStrategy._execute_trade
ExecuteTrade(e, symbol, action, value, dry, q, po) ==
  LET last_price == QuoteLastPrice(q)
      shares == PyInt(RDivInt(value, last_price))
      instruction == IF action = "buy" THEN "BUY" ELSE "SELL"
  IN IF ~q.ok
       THEN [raised |-> TRUE, error |-> "gateway", calls |-> <<QuoteCall(e, symbol, q)>>,
             frame |-> Frame(e, symbol, value, FALSE, 0, FALSE, 0, TRUE)]
     ELSE IF last_price = 0
       THEN [raised |-> TRUE, error |-> "Invalid price", calls |-> <<QuoteCall(e, symbol, q)>>,
             frame |-> Frame(e, symbol, value, TRUE, last_price, FALSE, 0, TRUE)]
     ELSE IF shares = 0
       THEN [raised |-> FALSE, calls |-> <<QuoteCall(e, symbol, q)>>,
             result |-> [symbol |-> symbol, status |-> "skipped", reason |-> "value too small",
                         action |-> action, value |-> value],
             frame |-> Frame(e, symbol, value, TRUE, last_price, TRUE, shares, FALSE)]
     ELSE IF dry
       THEN [raised |-> FALSE, calls |-> <<QuoteCall(e, symbol, q)>>,
             result |-> [symbol |-> symbol, status |-> "dry_run", action |-> action,
                         shares |-> shares, price |-> last_price, value |-> shares * last_price],
             frame |-> Frame(e, symbol, value, TRUE, last_price, TRUE, shares, FALSE)]
     ELSE IF ~po.ok
       THEN [raised |-> TRUE, error |-> "gateway",
             calls |-> <<QuoteCall(e, symbol, q), PlaceCall(e, symbol, instruction, shares, po)>>,
             frame |-> Frame(e, symbol, value, TRUE, last_price, TRUE, shares, TRUE)]
     ELSE [raised |-> FALSE,
           calls |-> <<QuoteCall(e, symbol, q), PlaceCall(e, symbol, instruction, shares, po)>>,
           result |-> [symbol |-> symbol, status |-> "success", action |-> action,
                       shares |-> shares, price |-> last_price, value |-> shares * last_price,
                       order_id |-> po.order_id],
           frame |-> Frame(e, symbol, value, TRUE, last_price, TRUE, shares, FALSE)]

\* mutant: the except branch only logs, no entry is appended
RebalanceIterateDroppingFailure(e, action, total_value, dry, q, po) ==
  LET r == ExecuteTrade(e, action.symbol, action.action, TradeValue(total_value, action), dry, q, po)
  IN [results |-> IF r.raised THEN <<>> ELSE <<r.result>>,
      calls |-> r.calls, frames |-> <<r.frame>>]

\* one iteration of "for action in actions" (try / except included)
RebalanceIterate(e, action, total_value, dry, q, po) ==
  LET r == ExecuteTrade(e, action.symbol, action.action, TradeValue(total_value, action), dry, q, po)
  IN [results |-> <<IF r.raised THEN FailedResult(action.symbol, r.error) ELSE r.result>>,
      calls |-> r.calls, frames |-> <<r.frame>>]

\* ------------------------------------------------------------------ DRIP
\* DRIPStrategy._get_dividend_positions
RECURSIVE GetDividendPositions(_)
GetDividendPositions(positions) ==
  IF Len(positions) = 0 THEN <<>>
  ELSE (IF Head(positions).assetType = "EQUITY" THEN <<Head(positions)>> ELSE <<>>)
         \o GetDividendPositions(Tail(positions))

\* sum(position.get("marketValue", 0) for position in positions)
RECURSIVE SumMarketValue(_)
SumMarketValue(positions) ==
  IF Len(positions) = 0 THEN 0
  ELSE Head(positions).marketValue + SumMarketValue(Tail(positions))

\* mutant: every position is allotted the whole cash
ReinvestAmountWhole(position, cash_available, total_value) ==
  RInt(cash_available)

\* DRIPStrategy._reinvest_dividends: cash_available * (position_value / total_value)
ReinvestAmount(position, cash_available, total_value) ==
  LET proportion == RDivInt(RInt(position.marketValue), total_value)
  IN RMulInt(proportion, cash_available)

\* mutant: the "shares == 0" return is missing
ReinvestInSymbolWithoutSkip(e, symbol, amount, dry, q, po) ==
  LET last_price == QuoteLastPrice(q)
      shares == PyInt(RDivInt(amount, last_price))
  IN IF ~q.ok
       THEN [raised |-> TRUE, error |-> "gateway", calls |-> <<QuoteCall(e, symbol, q)>>,
             frame |-> Frame(e, symbol, amount, FALSE, 0, FALSE, 0, TRUE)]
     ELSE IF last_price = 0
       THEN [raised |-> TRUE, error |-> "Invalid price", calls |-> <<QuoteCall(e, symbol, q)>>,
             frame |-> Frame(e, symbol, amount, TRUE, last_price, FALSE, 0, TRUE)]
     ELSE IF dry
       THEN [raised |-> FALSE, calls |-> <<QuoteCall(e, symbol, q)>>,
             result |-> [symbol |-> symbol, status |-> "dry_run", shares |-> shares,
                         price |-> last_price, amount |-> shares * last_price],
             frame |-> Frame(e, symbol, amount, TRUE, last_price, TRUE, shares, FALSE)]
     ELSE IF ~po.ok
       THEN [raised |-> TRUE, error |-> "gateway",
             calls |-> <<QuoteCall(e, symbol, q), PlaceCall(e, symbol, "BUY", shares, po)>>,
             frame |-> Frame(e, symbol, amount, TRUE, last_price, TRUE, shares, TRUE)]
     ELSE [raised |-> FALSE,
           calls |-> <<QuoteCall(e, symbol, q), PlaceCall(e, symbol, "BUY", shares, po)>>,
           result |-> [symbol |-> symbol, status |-> "success", shares |-> shares,
                       price |-> last_price, amount |-> shares * last_price,
                       order_id |-> po.order_id],
           frame |-> Frame(e, symbol, amount, TRUE, last_price, TRUE, shares, FALSE)]

\* DRIPStrategy._reinvest_in_symbol
ReinvestInSymbol(e, symbol, amount, dry, q, po) ==
  LET last_price == QuoteLastPrice(q)
      shares == PyInt(RDivInt(amount, last_price))
  IN IF ~q.ok
       THEN [raised |-> TRUE, error |-> "gateway", calls |-> <<QuoteCall(e, symbol, q)>>,
             frame |-> Frame(e, symbol, amount, FALSE, 0, FALSE, 0, TRUE)]
     ELSE IF last_price = 0
       THEN [raised |-> TRUE, error |-> "Invalid price", calls |-> <<QuoteCall(e, symbol, q)>>,
             frame |-> Frame(e, symbol, amount, TRUE, last_price, FALSE, 0, TRUE)]
     ELSE IF shares = 0
       THEN [raised |-> FALSE, calls |-> <<QuoteCall(e, symbol, q)>>,
             result |-> [symbol |-> symbol, status |-> "skipped", reason |-> "amount too small",
                         amount |-> amount, price |-> last_price],
             frame |-> Frame(e, symbol, amount, TRUE, last_price, TRUE, shares, FALSE)]
     ELSE IF dry
       THEN [raised |-> FALSE, calls |-> <<QuoteCall(e, symbol, q)>>,
             result |-> [symbol |-> symbol, status |-> "dry_run", shares |-> shares,
                         price |-> last_price, amount |-> shares * last_price],
             frame |-> Frame(e, symbol, amount, TRUE, last_price, TRUE, shares, FALSE)]
     ELSE IF ~po.ok
       THEN [raised |-> TRUE, error |-> "gateway",
             calls |-> <<QuoteCall(e, symbol, q), PlaceCall(e, symbol, "BUY", shares, po)>>,
             frame |-> Frame(e, symbol, amount, TRUE, last_price, TRUE, shares, TRUE)]
     ELSE [raised |-> FALSE,
           calls |-> <<QuoteCall(e, symbol, q), PlaceCall(e, symbol, "BUY", shares, po)>>,
           result |-> [symbol |-> symbol, status |-> "success", shares |-> shares,
                       price |-> last_price, amount |-> shares * last_price,
                       order_id |-> po.order_id],
           frame |-> Frame(e, symbol, amount, TRUE, last_price, TRUE, shares, FALSE)]

\* one iteration of "for position in positions": a small allotment is passed
\* over ("continue"), otherwise the step runs inside try / except
DRIPIterate(e, position, cash_available, total_value, dry, q, po) ==
  LET symbol == position.symbol
      reinvest_amount == ReinvestAmount(position, cash_available, total_value)
      r == ReinvestInSymbol(e, symbol, reinvest_amount, dry, q, po)
  IN IF RLess(reinvest_amount, RInt(5))
       THEN [results |-> <<>>, calls |-> <<>>, frames |-> <<>>]
       ELSE [results |-> <<IF r.raised THEN FailedResult(symbol, r.error) ELSE r.result>>,
             calls |-> r.calls, frames |-> <<r.frame>>]

\* --------------------------------------------------------- Opportunistic
\* the gateway log entry of the quote read by _check_symbol_for_dip
DipQuoteCall(e, symbol, q) == [op |-> "get_quote", elem |-> e, symbol |-> symbol, ok |-> q.ok, price |-> q.lastPrice, open |-> q.openPrice, high |-> q.high52]

\* OpportunisticStrategy._execute_opportunistic_buy
ExecuteOpportunisticBuy(e, symbol, price, amount, dip_percentage, dry, po) ==
  LET shares == PyInt(RDivInt(amount, price))
  IN IF shares = 0
       THEN [raised |-> FALSE, calls |-> <<>>,
             result |-> [symbol |-> symbol, status |-> "skipped", reason |-> "amount too small",
                         amount |-> amount, price |-> price, dip |-> dip_percentage],
             frame |-> Frame(e, symbol, amount, TRUE, price, TRUE, shares, FALSE)]
     ELSE IF dry
       THEN [raised |-> FALSE, calls |-> <<>>,
             result |-> [symbol |-> symbol, status |-> "dry_run", shares |-> shares,
                         price |-> price, amount |-> shares * price, dip |-> dip_percentage],
             frame |-> Frame(e, symbol, amount, TRUE, price, TRUE, shares, FALSE)]
     ELSE IF ~po.ok
       THEN [raised |-> TRUE, error |-> "gateway",
             calls |-> <<PlaceCall(e, symbol, "BUY", shares, po)>>,
             frame |-> Frame(e, symbol, amount, TRUE, price, TRUE, shares, TRUE)]
     ELSE [raised |-> FALSE, calls |-> <<PlaceCall(e, symbol, "BUY", shares, po)>>,
           result |-> [symbol |-> symbol, status |-> "success", shares |-> shares,
                       price |-> price, amount |-> shares * price, dip |-> dip_percentage,
                       order_id |-> po.order_id],
           frame |-> Frame(e, symbol, amount, TRUE, price, TRUE, shares, FALSE)]

\* _check_symbol_for_dip computing the intraday change whenever the open price is not 0
CheckSymbolForDipOpenNonZero(e, symbol, dip_threshold, buy_amount, dry, q, po) ==
  LET last_price == q.lastPrice
      open_price == q.openPrice
      high_52_week == q.high52
      dip_from_high == RDivInt(RInt(high_52_week - last_price), high_52_week)
      intraday_change == IF open_price # 0 THEN RDivInt(RInt(last_price - open_price), open_price)
                         ELSE RInt(0)
      is_dip == \/ RLeq(dip_threshold, dip_from_high)
                \/ (RLess(intraday_change, RInt(0)) /\ RLeq(dip_threshold, RAbs(intraday_change)))
      buy == ExecuteOpportunisticBuy(e, symbol, last_price, buy_amount, dip_from_high, dry, po)
  IN IF ~q.ok
       THEN [raised |-> TRUE, none |-> FALSE, error |-> "gateway", calls |-> <<DipQuoteCall(e, symbol, q)>>,
             frame |-> Frame(e, symbol, buy_amount, FALSE, 0, FALSE, 0, TRUE)]
     ELSE IF last_price = 0 \/ high_52_week = 0
       THEN [raised |-> FALSE, none |-> TRUE, calls |-> <<DipQuoteCall(e, symbol, q)>>,
             frame |-> Frame(e, symbol, buy_amount, TRUE, last_price, FALSE, 0, FALSE)]
     ELSE IF ~is_dip
       THEN [raised |-> FALSE, none |-> TRUE, calls |-> <<DipQuoteCall(e, symbol, q)>>,
             frame |-> Frame(e, symbol, buy_amount, TRUE, last_price, FALSE, 0, FALSE)]
     ELSE IF buy.raised
       THEN [raised |-> TRUE, none |-> FALSE, error |-> buy.error,
             calls |-> <<DipQuoteCall(e, symbol, q)>> \o buy.calls, frame |-> buy.frame]
     ELSE [raised |-> FALSE, none |-> FALSE, result |-> buy.result,
           calls |-> <<DipQuoteCall(e, symbol, q)>> \o buy.calls, frame |-> buy.frame]

\* OpportunisticStrategy._check_symbol_for_dip; none |-> TRUE is "return None"
CheckSymbolForDip(e, symbol, dip_threshold, buy_amount, dry, q, po) ==
  LET last_price == q.lastPrice
      open_price == q.openPrice
      high_52_week == q.high52
      dip_from_high == RDivInt(RInt(high_52_week - last_price), high_52_week)
      intraday_change == IF open_price > 0 THEN RDivInt(RInt(last_price - open_price), open_price)
                         ELSE RInt(0)
      is_dip == \/ RLeq(dip_threshold, dip_from_high)
                \/ (RLess(intraday_change, RInt(0)) /\ RLeq(dip_threshold, RAbs(intraday_change)))
      buy == ExecuteOpportunisticBuy(e, symbol, last_price, buy_amount, dip_from_high, dry, po)
  IN IF ~q.ok
       THEN [raised |-> TRUE, none |-> FALSE, error |-> "gateway", calls |-> <<DipQuoteCall(e, symbol, q)>>,
             frame |-> Frame(e, symbol, buy_amount, FALSE, 0, FALSE, 0, TRUE)]
     ELSE IF last_price = 0 \/ high_52_week = 0
       THEN [raised |-> FALSE, none |-> TRUE, calls |-> <<DipQuoteCall(e, symbol, q)>>,
             frame |-> Frame(e, symbol, buy_amount, TRUE, last_price, FALSE, 0, FALSE)]
     ELSE IF ~is_dip
       THEN [raised |-> FALSE, none |-> TRUE, calls |-> <<DipQuoteCall(e, symbol, q)>>,
             frame |-> Frame(e, symbol, buy_amount, TRUE, last_price, FALSE, 0, FALSE)]
     ELSE IF buy.raised
       THEN [raised |-> TRUE, none |-> FALSE, error |-> buy.error,
             calls |-> <<DipQuoteCall(e, symbol, q)>> \o buy.calls, frame |-> buy.frame]
     ELSE [raised |-> FALSE, none |-> FALSE, result |-> buy.result,
           calls |-> <<DipQuoteCall(e, symbol, q)>> \o buy.calls, frame |-> buy.frame]

\* one iteration of "for symbol in watchlist": the except branch only logs
OpportunisticIterate(e, symbol, dip_threshold, buy_amount, dry, q, po) ==
  LET r == CheckSymbolForDip(e, symbol, dip_threshold, buy_amount, dry, q, po)
  IN [results |-> IF r.raised \/ r.none THEN <<>> ELSE <<r.result>>,
      calls |-> r.calls, frames |-> <<r.frame>>]

\* ---------------------------------------------------------------- Options
ChainCall(e, symbol, kind, ch) == [op |-> "get_option_chain", elem |-> e, symbol |-> symbol, ok |-> ch.ok, contractType |-> kind]

\* float division, divisor non-zero
RDiv(a, b) == IF b.n > 0 THEN [n |-> a.n * b.d, d |-> a.d * b.n] ELSE [n |-> -(a.n * b.d), d |-> a.d * (-b.n)]

\* the side of the market the search reads: bid of a call, ask of a put
OptionQuote(kind, option) == IF kind = "CALL" THEN option.bid ELSE option.ask

\* OptionsStrategy._find_suitable_call and _find_suitable_put: the loop over
\* the chain, best holding best_option with its best_score
RECURSIVE FindSuitable(_, _, _, _, _)
FindSuitable(kind, chain, target_strike, i, best) ==
  IF i > Len(chain) THEN best
  ELSE LET option == chain[i]
           strike_diff == RAbs(RSub(RInt(option.strike), target_strike))
       IN IF RLess(Rat(1, 10), RDiv(strike_diff, target_strike))
            THEN FindSuitable(kind, chain, target_strike, i + 1, best)
          ELSE IF OptionQuote(kind, option) <= 0
            THEN FindSuitable(kind, chain, target_strike, i + 1, best)
          ELSE IF ~best.some \/ RLess(strike_diff, best.score)
            THEN FindSuitable(kind, chain, target_strike, i + 1, [some |-> TRUE, score |-> strike_diff, v |-> option])
          ELSE FindSuitable(kind, chain, target_strike, i + 1, best)

\* stock_price * (1 + otm_percentage) for a call, * (1 - otm_percentage) for a put, otm_percentage = 0.05
TargetStrike(kind, stock_price) == IF kind = "CALL" THEN Rat(stock_price * 105, 100) ELSE Rat(stock_price * 95, 100)

\* OptionsStrategy._sell_covered_call (kind CALL) and _buy_protective_put (kind PUT)
OptionTrade(kind, e, symbol, contracts, dry, q, ch, po) ==
  LET stock_price == QuoteLastPrice(q)
      qc == QuoteCall(e, symbol, q)
      cc == ChainCall(e, symbol, kind, ch)
      suitable == FindSuitable(kind, ch.chain, TargetStrike(kind, stock_price), 1, [some |-> FALSE])
      money == OptionQuote(kind, suitable.v) * 100 * contracts
      instruction == IF kind = "CALL" THEN "SELL_TO_OPEN" ELSE "BUY_TO_OPEN"
      oc == PlaceCall(e, suitable.v.symbol, instruction, contracts, po)
      report(status) ==
        IF kind = "CALL"
          THEN [symbol |-> symbol, status |-> status, contracts |-> contracts, option_symbol |-> suitable.v.symbol,
                strike |-> suitable.v.strike, premium |-> money]
          ELSE [symbol |-> symbol, status |-> status, contracts |-> contracts, option_symbol |-> suitable.v.symbol,
                strike |-> suitable.v.strike, cost |-> money]
  IN IF ~q.ok
       THEN [raised |-> TRUE, error |-> "get_quote failed", calls |-> <<qc>>]
     ELSE IF stock_price = 0
       THEN [raised |-> TRUE, error |-> "Invalid price", calls |-> <<qc>>]
     ELSE IF ~ch.ok
       THEN [raised |-> TRUE, error |-> "get_option_chain failed", calls |-> <<qc, cc>>]
     ELSE IF ~suitable.some
       THEN [raised |-> FALSE, calls |-> <<qc, cc>>,
             result |-> [symbol |-> symbol, status |-> "skipped", reason |-> "no suitable option found"]]
     ELSE IF dry
       THEN [raised |-> FALSE, calls |-> <<qc, cc>>, result |-> report("dry_run")]
     ELSE IF ~po.ok
       THEN [raised |-> TRUE, error |-> "place_order failed", calls |-> <<qc, cc, oc>>]
     ELSE [raised |-> FALSE, calls |-> <<qc, cc, oc>>,
           result |-> [x \in DOMAIN report("success") \cup {"order_id"} |->
                         IF x = "order_id" THEN po.order_id ELSE report("success")[x]]]

\* one pass of the loop of sell_covered_calls / buy_protective_puts;
\* positions is the caller's symbol filter (None or a list)
OptionsIterate(kind, e, position, positions, dry, q, ch, po) ==
  IF position.assetType # "EQUITY" \/ position.longQuantity < 100
    THEN [results |-> <<>>, calls |-> <<>>]
  ELSE IF positions.some /\ Len(positions.v) > 0 /\ ~(\E i \in 1..Len(positions.v) : positions.v[i] = position.symbol)
    THEN [results |-> <<>>, calls |-> <<>>]
  ELSE LET t == OptionTrade(kind, e, position.symbol, position.longQuantity \div 100, dry, q, ch, po)
       IN IF t.raised
            THEN [results |-> <<FailedResult(position.symbol, t.error)>>, calls |-> t.calls]
            ELSE [results |-> <<t.result>>, calls |-> t.calls]

\* sequences over S of length 0..n
SeqsUpTo(S, n) == UNION {[1..k -> S] : k \in 0..n}

\* inputs of a direct engine invocation (scheduler, library use)
EngineSymbols == {SPY, QQQ}

EngineSymbolLists == SeqsUpTo(EngineSymbols, MaxSymbols)

EngineAmounts == {RInt(-25), RInt(0), RInt(15), RInt(25)}

\* distinct symbols along a position list
DistinctSymbols(positions) == \A i, j \in 1..Len(positions) : positions[i].symbol = positions[j].symbol => i = j

PositionLists(records) == {positions \in SeqsUpTo(records, MaxPositions) : DistinctSymbols(positions)}

\* positions as the rebalance engine reads them (symbol, marketValue)
RebalancePositions == PositionLists([symbol : Tickers, assetType : {"EQUITY"}, marketValue : {60}, longQuantity : {0}] \cup {[symbol |-> SPY, assetType |-> "EQUITY", marketValue |-> 0, longQuantity |-> 0]})

LiquidationValues == {0, 100}

\* the second read may find other prices, or the account in debit
SizingLiquidationValues == {-100, 0, 100, 150}

Item(symbol, n, d) == [symbol |-> symbol, pct |-> Rat(n, d)]

\* target allocations as Config holds them: the ordered items of the dict
EngineTargets == {<<Item(SPY, 5, 10), Item(AGG, 5, 10)>>, <<Item(AGG, 4, 10), Item(SPY, 6, 10)>>, <<Item(QQQ, 10, 10)>>}

EngineThresholds == {Rat(0, 1), Rat(1, 10), Rat(1, 2)}

\* positions as the DRIP engine reads them (symbol, assetType, marketValue)
DRIPPositions == PositionLists([symbol : {SPY}, assetType : {"EQUITY"}, marketValue : {0, 40, 60}, longQuantity : {0}] \cup [symbol : {QQQ, AGG}, assetType : {"EQUITY"}, marketValue : {60}, longQuantity : {0}] \cup {[symbol |-> QQQ, assetType |-> "OPTION", marketValue |-> 40, longQuantity |-> 0]})

CashValues == {5, 12, 100}

DipQuote(ok, last, open, high) == [ok |-> ok, lastPrice |-> last, openPrice |-> open, high52 |-> high]

\* client.get_quote as the dip scan reads it (lastPrice, openPrice, 52WkHigh; absent keys read as 0)
DipQuoteResponses == {DipQuote(FALSE, 0, 0, 0), DipQuote(TRUE, 0, 18, 20), DipQuote(TRUE, 18, 18, 0), DipQuote(TRUE, 18, 18, 18), DipQuote(TRUE, 18, 18, 20), DipQuote(TRUE, 18, 20, 18), DipQuote(TRUE, 18, 0, 18), DipQuote(TRUE, -18, 18, 20), DipQuote(TRUE, 10, 20, 20), DipQuote(TRUE, 18, -20, 18)}

DipThresholds == {Rat(1, 20), Rat(1, 10), Rat(1, 2)}

BuyAmounts == {RInt(10), RInt(40)}

OptionsPositions == PositionLists({[symbol |-> SPY, assetType |-> "EQUITY", marketValue |-> 0, longQuantity |-> 250], [symbol |-> SPY, assetType |-> "EQUITY", marketValue |-> 0, longQuantity |-> 50], [symbol |-> AGG, assetType |-> "EQUITY", marketValue |-> 0, longQuantity |-> 100], [symbol |-> QQQ, assetType |-> "OPTION", marketValue |-> 0, longQuantity |-> 100]})

Option(symbol, strike, bid, ask) == [symbol |-> symbol, strike |-> strike, bid |-> bid, ask |-> ask]

\* what get_option_chain answers: failure, or the options of its ExpDateMap in iteration order
ChainResponses == {[ok |-> FALSE, chain |-> <<>>], [ok |-> TRUE, chain |-> <<>>], [ok |-> TRUE, chain |-> <<Option("O20", 20, 2, 3), Option("O11", 11, 0, 0), Option("O10", 10, 2, 3)>>], [ok |-> TRUE, chain |-> <<Option("O11", 11, 1, 1), Option("O10", 10, 2, 3)>>]}

\* ------------------------------------------------------------------ Config
IWM == <<"I", "W", "M">>

\* the value of TARGET_ALLOCATION in the environment: not set, text that is no
\* JSON, or the dictionary json.loads gives, as its items in order
Unset == [kind |-> "unset"]

Garbage == [kind |-> "garbage"]

Dict(items) == [kind |-> "dict", items |-> items]

\* the default allocation of Config._load_target_allocation
DefaultAllocation == <<Item(SPY, 2, 5), Item(QQQ, 3, 10), Item(IWM, 3, 20), Item(AGG, 3, 20)>>

\* Config._load_target_allocation: a ValueError (ok FALSE) or the allocation Config holds
LoadTargetAllocation(allocation_str) ==
  IF allocation_str.kind = "unset" THEN [ok |-> TRUE, value |-> DefaultAllocation]
  ELSE IF allocation_str.kind = "garbage" THEN [ok |-> FALSE]
  ELSE LET v == ValidateAllocation(allocation_str.items, TRUE, Tolerance)
       IN IF v.ok THEN [ok |-> TRUE, value |-> v.value] ELSE [ok |-> FALSE]

NotLoaded == [ok |-> FALSE, value |-> <<>>]

RawKeys == {SPY, <<"s", "p", "y">>, <<" ", "A", "G", "G">>, <<"S", "P", "Y", "1">>}

RawWeights == {Rat(1, 2), RInt(1), Rat(4, 10000000), RInt(0), Rat(3, 2), Rat(999, 2000), Inf}

\* dictionaries have distinct keys
RawAllocations == {items \in SeqsUpTo([symbol : RawKeys, pct : RawWeights], MaxSymbols) : DistinctSymbols(items)}

AllocationEnvs == {Unset, Garbage} \cup {Dict(items) : items \in RawAllocations}

\* ------------------------------------------------------- credential vault
\* Python values a token dictionary is built from: an atom carries its text
\* (an int its decimal text), a container its children; the items of a dict
\* are key / value pairs with distinct keys
PyStr(s) == [t |-> "str", a |-> s, c |-> <<>>]

PyInteger(s) == [t |-> "int", a |-> s, c |-> <<>>]

PyList(c) == [t |-> "list", a |-> "", c |-> c]

PyTuple(c) == [t |-> "tuple", a |-> "", c |-> c]

PyDict(items) == [t |-> "dict", a |-> "", c |-> items]

\* a value json.dumps has no encoding for
PySet == [t |-> "set", a |-> "", c |-> <<>>]

KV(k, v) == [k |-> k, v |-> v]

\* the grammar of a JSON text: string, number, array, object (a sequence of
\* name / value members, names not necessarily distinct)
JStr(s) == [t |-> "jstr", a |-> s, c |-> <<>>]

JNum(s) == [t |-> "jnum", a |-> s, c |-> <<>>]

JArr(c) == [t |-> "jarr", a |-> "", c |-> c]

JObj(members) == [t |-> "jobj", a |-> "", c |-> members]

Member(name, value) == [name |-> name, value |-> value]

\* bytes that are no JSON text
NotJson == [t |-> "bytes", a |-> "", c |-> <<>>]

\* json.dumps raises TypeError on a set, and on a dict key that is no str or int
RECURSIVE Serializable(_)
Serializable(o) ==
  IF o.t \in {"str", "int"} THEN TRUE
  ELSE IF o.t \in {"list", "tuple"} THEN \A i \in 1..Len(o.c) : Serializable(o.c[i])
  ELSE IF o.t = "dict" THEN \A i \in 1..Len(o.c) : o.c[i].k.t \in {"str", "int"} /\ Serializable(o.c[i].v)
  ELSE FALSE

\* json.dumps: a tuple is written as an array, a dict key as a string (an int
\* key as its decimal text)
RECURSIVE JsonDumps(_)
JsonDumps(o) ==
  IF o.t = "str" THEN JStr(o.a)
  ELSE IF o.t = "int" THEN JNum(o.a)
  ELSE IF o.t \in {"list", "tuple"} THEN JArr([i \in 1..Len(o.c) |-> JsonDumps(o.c[i])])
  ELSE JObj([i \in 1..Len(o.c) |-> Member(o.c[i].k.a, JsonDumps(o.c[i].v))])

\* the dict json.loads builds from the first n members: a repeated name keeps
\* its first position and takes the later value
RECURSIVE LoadMembers(_, _)
LoadMembers(members, n) ==
  IF n = 0 THEN <<>>
  ELSE LET rest == LoadMembers(members, n - 1)
           k == PyStr(members[n].name)
           v == members[n].value
       IN IF \E i \in 1..Len(rest) : rest[i].k = k
          THEN [i \in 1..Len(rest) |-> IF rest[i].k = k THEN KV(k, v) ELSE rest[i]]
          ELSE Append(rest, KV(k, v))

\* json.loads of a JSON text
RECURSIVE JsonLoads(_)
JsonLoads(j) ==
  IF j.t = "jstr" THEN PyStr(j.a)
  ELSE IF j.t = "jnum" THEN PyInteger(j.a)
  ELSE IF j.t = "jarr" THEN PyList([i \in 1..Len(j.c) |-> JsonLoads(j.c[i])])
  ELSE PyDict(LoadMembers([i \in 1..Len(j.c) |-> Member(j.c[i].name, JsonLoads(j.c[i].value))], Len(j.c)))

\* bool(value): an empty container or string is falsy, and so is the int 0
Truthy(o) == IF o.t \in {"str"} THEN o.a # "" ELSE IF o.t = "int" THEN o.a # "0" ELSE Len(o.c) > 0

\* what is passed as encryption_key (or found in SCHWAB_TOKEN_ENCRYPTION_KEY):
\* nothing, the 44 characters of a Fernet key, or a passphrase
NoKey == [kind |-> "none", text |-> ""]

FernetKey(key) == [kind |-> "key", text |-> key]

Passphrase(text) == [kind |-> "passphrase", text |-> text]

\* PBKDF2-HMAC-SHA256 with the fixed salt, base64-encoded: the 44 characters
\* derived from a passphrase, one key per passphrase
Derive(text) == IF text = "hunter2" THEN "K2" ELSE IF text = "swordfish" THEN "K3" ELSE "K4"

\* TokenEncryption._create_fernet: the Fernet key a key source stands for
CreateFernet(key_source) == IF key_source.kind = "key" THEN key_source.text ELSE Derive(key_source.text)

\* Fernet.encrypt: an authenticated ciphertext of data under key
FernetEncrypt(key, data) == [kind |-> "fernet", key |-> key, payload |-> data]

TokenEncryptionError == [ok |-> FALSE, error |-> "TokenEncryptionError"]

RuntimeError == [ok |-> FALSE, error |-> "RuntimeError"]

\* what a file holds: nothing (no such file), a JSON text, a Fernet token, or
\* bytes that are neither (a torn or corrupted file)
NoFile == [kind |-> "absent"]

JsonFile(j) == [kind |-> "json", payload |-> j]

Corrupted == [kind |-> "corrupted"]

\* a decrypt that does not check which key made the token
FernetDecryptAnyKey(key, token) ==
  IF token.kind = "fernet" THEN Returned(token.payload) ELSE [ok |-> FALSE]

\* Fernet.decrypt: the data, or InvalidToken when the bytes are no token of this key
FernetDecrypt(key, token) ==
  IF token.kind = "fernet" /\ token.key = key THEN Returned(token.payload) ELSE [ok |-> FALSE]

\* TokenEncryption.encrypt_tokens
EncryptTokens(key_source, token_data) ==
  IF Serializable(token_data)
  THEN Returned(FernetEncrypt(CreateFernet(key_source), JsonDumps(token_data)))
  ELSE TokenEncryptionError

\* decrypt_tokens that hands back the decrypted text without json.loads
DecryptTokensUnparsed(key_source, encrypted_data) ==
  LET decrypted == FernetDecrypt(CreateFernet(key_source), encrypted_data)
  IN IF ~decrypted.ok THEN TokenEncryptionError
     ELSE IF decrypted.value.t = "bytes" THEN TokenEncryptionError
     ELSE Returned(decrypted.value)

\* TokenEncryption.decrypt_tokens
DecryptTokens(key_source, encrypted_data) ==
  LET decrypted == FernetDecrypt(CreateFernet(key_source), encrypted_data)
  IN IF ~decrypted.ok THEN TokenEncryptionError
     ELSE IF decrypted.value.t = "bytes" THEN TokenEncryptionError
     ELSE Returned(JsonLoads(decrypted.value))

\* what the file system does to a write: "ok", "open" (mkdir or open fails, the
\* file is untouched) or "write" (the file was opened for writing, so emptied,
\* and the write fails)
WriteOutcomes == {"ok", "open", "write"}

\* TokenEncryption.save_encrypted_tokens: whether it returned, and what the file holds afterwards
SaveEncryptedTokens(key_source, token_data, file, io) ==
  LET encrypted == EncryptTokens(key_source, token_data)
  IN IF ~encrypted.ok THEN [ok |-> FALSE, file |-> file]
     ELSE IF io = "open" THEN [ok |-> FALSE, file |-> file]
     ELSE IF io = "write" THEN [ok |-> FALSE, file |-> Corrupted]
     ELSE [ok |-> TRUE, file |-> encrypted.value]

\* TokenEncryption.load_encrypted_tokens of a file that exists
LoadEncryptedTokens(key_source, file) == DecryptTokens(key_source, file)

\* is_encrypted_token_file: a file is taken as encrypted when it is no JSON text
IsEncryptedTokenFile(file) == file.kind \notin {"absent", "json"}

\* SchwabClient._load_tokens: None when there is no token file
LoadTokens(key_source, file) ==
  IF file.kind = "absent" THEN Returned(None) ELSE LoadEncryptedTokens(key_source, file)

\* a constructor that leaves the token file alone
SchwabClientInitWithoutMigration(encryption_key, file, io) ==
  IF encryption_key.kind = "none" THEN [ok |-> FALSE, file |-> file]
  ELSE [ok |-> TRUE, file |-> file]

\* SchwabClient.__init__ with _migrate_existing_tokens: whether it returned,
\* and what the token file holds afterwards
SchwabClientInit(encryption_key, file, io) ==
  IF encryption_key.kind = "none" THEN [ok |-> FALSE, file |-> file]
  ELSE IF file.kind = "absent" THEN [ok |-> TRUE, file |-> file]
  ELSE IF IsEncryptedTokenFile(file) THEN [ok |-> TRUE, file |-> file]
  ELSE SaveEncryptedTokens(encryption_key, JsonLoads(file.payload), file, io)

\* what the temporary file does: "ok", "create" (NamedTemporaryFile raises, no
\* file) or "write" (json.dump or the close of the with block raises)
TempOutcomes == {"ok", "create", "write"}

\* a temporary file whose write broke off: part of the plaintext tokens
PartialPlaintext == [kind |-> "partial"]

\* what schwab-py does when asked for a client: it returns one or raises, it
\* may write tokens as JSON to the path it was given (manual flow), and it may
\* hand fresh tokens to token_write_func before it comes back
Library(returns, wrote, fresh) == [returns |-> returns, wrote |-> wrote, fresh |-> fresh]

\* how a call of authenticate ended and what it left behind
Ended(outcome, _client, file, temps, oauth, plaintext_read) == [outcome |-> outcome, _client |-> _client, file |-> file, temps |-> temps, oauth |-> oauth, plaintext_read |-> plaintext_read]

\* the token_write_func callback inside a library call: the token file after it, and whether it raised
WriteToken(key_source, lib, file, io) ==
  IF lib.fresh.some THEN SaveEncryptedTokens(key_source, lib.fresh.v, file, io) ELSE [ok |-> TRUE, file |-> file]

\* authenticate, no token file: the OAuth flow with an empty temporary file
\* (nothing is written to it here, so only its creation can fail), whose
\* content, if the library wrote any, is encrypted into the token file
AuthenticateManualFlow(key_source, file, tmp, lib, io) ==
  LET written == WriteToken(key_source, lib, file, io)
      saved == SaveEncryptedTokens(key_source, lib.wrote.v, written.file, io)
  IN IF tmp = "create" THEN Ended("RuntimeError", "none", file, <<>>, FALSE, FALSE)
     ELSE IF ~written.ok THEN Ended("TokenEncryptionError", "none", written.file, <<>>, TRUE, FALSE)
     ELSE IF ~lib.returns THEN Ended("RuntimeError", "none", written.file, <<>>, TRUE, FALSE)
     ELSE IF ~lib.wrote.some THEN Ended("RuntimeError", "client", written.file, <<>>, TRUE, FALSE)
     ELSE IF ~saved.ok THEN Ended("TokenEncryptionError", "client", saved.file, <<>>, TRUE, FALSE)
     ELSE Ended("returned", "client", saved.file, <<>>, TRUE, FALSE)

\* authenticate that answers a failed decryption with the OAuth flow
AuthenticateFromFileFallingBack(key_source, file, tmp, lib, io) ==
  LET token_data == LoadTokens(key_source, file)
      written == WriteToken(key_source, lib, file, io)
  IN IF ~token_data.ok THEN AuthenticateManualFlow(key_source, file, tmp, lib, io)
     ELSE IF ~Truthy(token_data.value) THEN Ended("returned", "none", file, <<>>, FALSE, FALSE)
     ELSE IF tmp = "create" THEN Ended("RuntimeError", "none", file, <<>>, FALSE, FALSE)
     ELSE IF tmp = "write" THEN Ended("RuntimeError", "none", file, <<PartialPlaintext>>, FALSE, FALSE)
     ELSE IF ~written.ok THEN Ended("TokenEncryptionError", "none", written.file, <<>>, FALSE, FALSE)
     ELSE IF ~lib.returns THEN Ended("RuntimeError", "none", written.file, <<>>, FALSE, FALSE)
     ELSE Ended("returned", "client", written.file, <<>>, FALSE, FALSE)

\* authenticate, token file present: decrypt, hand the tokens to schwab-py
\* through a temporary plaintext file, remove that file
AuthenticateFromFile(key_source, file, tmp, lib, io) ==
  LET token_data == LoadTokens(key_source, file)
      written == WriteToken(key_source, lib, file, io)
  IN IF ~token_data.ok THEN Ended("TokenEncryptionError", "none", file, <<>>, FALSE, FALSE)
     ELSE IF ~Truthy(token_data.value) THEN Ended("returned", "none", file, <<>>, FALSE, FALSE)
     ELSE IF tmp = "create" THEN Ended("RuntimeError", "none", file, <<>>, FALSE, FALSE)
     ELSE IF tmp = "write" THEN Ended("RuntimeError", "none", file, <<PartialPlaintext>>, FALSE, FALSE)
     ELSE IF ~written.ok THEN Ended("TokenEncryptionError", "none", written.file, <<>>, FALSE, FALSE)
     ELSE IF ~lib.returns THEN Ended("RuntimeError", "none", written.file, <<>>, FALSE, FALSE)
     ELSE Ended("returned", "client", written.file, <<>>, FALSE, FALSE)

\* SchwabClient.authenticate
Authenticate(key_source, file, tmp, lib, io) ==
  IF file.kind # "absent"
  THEN AuthenticateFromFile(key_source, file, tmp, lib, io)
  ELSE AuthenticateManualFlow(key_source, file, tmp, lib, io)

\* token dictionaries as json.loads gives them (string keys, lists) ...
StoredTokens == {PyDict(<<>>), PyDict(<<KV(PyStr("access_token"), PyStr("A"))>>), PyDict(<<KV(PyStr("access_token"), PyStr("B")), KV(PyStr("expires_in"), PyInteger("1800"))>>)}

\* ... the JSON texts a token file may hold: those of the dictionaries above,
\* an array, and an object that repeats a name ...
JsonTexts == {JsonDumps(d) : d \in StoredTokens} \cup {JArr(<<JStr("A")>>), JObj(<<Member("access_token", JStr("A")), Member("access_token", JStr("B"))>>)}

\* ... and the key sources a process may be configured with
KeySources == {NoKey, FernetKey("K1"), FernetKey("K2"), Passphrase("hunter2"), Passphrase("swordfish")}

\* what may lie at token_path when a process starts
TokenFiles == {NoFile, Corrupted} \cup {JsonFile(j) : j \in JsonTexts} \cup {FernetEncrypt(k, p) : k \in {"K1", "K2"}, p \in JsonTexts \cup {NotJson}}

Libraries == {Library(r, w, f) : r \in BOOLEAN, w \in {None, Some(PyDict(<<KV(PyStr("access_token"), PyStr("N"))>>))}, f \in {None, Some(PyDict(<<KV(PyStr("access_token"), PyStr("R"))>>))}}

\* the SchwabClient object: not built, built, or its constructor raised; with
\* how the construction before the latest one ended, the token file as it was
\* before the latest one, and the number of constructions
Client(state, key_source, _client, earlier, before, count) == [state |-> state, key_source |-> key_source, _client |-> _client, earlier |-> earlier, before |-> before, count |-> count]

\* the latest call of authenticate: how it ended, the token file before it,
\* the temporary files it left, and what it met
Auth(outcome, before, left, oauth, plaintext_read, tmp, returns) == [outcome |-> outcome, before |-> before, left |-> left, oauth |-> oauth, plaintext_read |-> plaintext_read, tmp |-> tmp, returns |-> returns]

NoAuth == Auth("none", NoFile, <<>>, FALSE, FALSE, "ok", FALSE)

\* dictionaries handed to encrypt_tokens: those above, and ones with a tuple,
\* an int key, an int key next to its decimal text, a nested dictionary, a set
TokenDicts == StoredTokens \cup {PyDict(<<KV(PyStr("scope"), PyTuple(<<PyStr("api")>>))>>), PyDict(<<KV(PyStr("scope"), PyList(<<PyStr("api")>>))>>), PyDict(<<KV(PyInteger("1"), PyStr("A"))>>), PyDict(<<KV(PyInteger("1"), PyStr("A")), KV(PyStr("1"), PyStr("B"))>>), PyDict(<<KV(PyStr("token"), PyDict(<<KV(PyStr("access_token"), PyStr("A"))>>))>>), PyDict(<<KV(PyStr("token"), PyDict(<<KV(PyInteger("1"), PyStr("A"))>>))>>), PyDict(<<KV(PyStr("scope"), PySet)>>)}

\* one use of the TokenEncryption functions: the dictionary, the key sources
\* of the two TokenEncryption objects, what was done, whether the save returned, the result
Crypt(op, token_data, k1, k2, saved, result) == [op |-> op, token_data |-> token_data, k1 |-> k1, k2 |-> k2, saved |-> saved, result |-> result]

NoResult == [ok |-> FALSE, error |-> "none"]

NoCrypt == Crypt("none", PyDict(<<>>), NoKey, NoKey, FALSE, NoResult)

\* nothing of the vault in play
NoVault ==
  /\ token_file = NoFile
  /\ temp_files = <<>>
  /\ client = Client("none", NoKey, "none", "none", NoFile, 0)
  /\ auth = NoAuth
  /\ crypt = NoCrypt

\* no AuditLogger built yet
NoAudit == <<>>

\* no concurrent invocations
NoRace == <<>>

\* how the guard "if not dry_run and not yes: if not click.confirm(...)" of a
\* CLI command went: not reached for a dry run, passed by --yes, or decided
\* by the answer at the prompt
Consent(dry, yes, confirmed) ==
  IF dry THEN "dry_run" ELSE IF yes THEN "yes" ELSE IF confirmed THEN "confirmed" ELSE "declined"

NoConsent == "none"

\* no CLI command entered, no AuditLogger built, no concurrent invocations
Elsewhere ==
  /\ consent = NoConsent
  /\ audit = NoAudit
  /\ race = NoRace

\* no strategy invocation under way
Idle ==
  /\ pc = "idle"
  /\ strategy = "none"
  /\ dry_run = FALSE
  /\ work = <<>>
  /\ idx = 1
  /\ params = [amount |-> RInt(0)]
  /\ results = <<>>
  /\ origin = <<>>
  /\ gateway = <<>>
  /\ frames = <<>>
  /\ request = NoRequest

Init ==
  /\ Idle
  /\ Elsewhere
  /\ env = Unset
  /\ loaded = NotLoaded
  /\ NoVault
  /\ audit_log = <<>>

\* a process starts in some environment ...
ConfigInit ==
  /\ Idle
  /\ Elsewhere
  /\ env \in AllocationEnvs
  /\ loaded = NotLoaded
  /\ NoVault
  /\ audit_log = <<>>

\* ... and Config.__init__ loads the target allocation from it
ConfigLoad ==
  /\ loaded = NotLoaded
  /\ loaded' = LoadTargetAllocation(env)
  /\ UNCHANGED <<env, token_file, temp_files, client, auth, crypt, audit_log, consent, audit, race, engine>>

ConfigNext ==
  \/ ConfigLoad

ConfigSpec == ConfigInit /\ [][ConfigNext]_vars

\* a process finds some token file and is configured with some key source ...
VaultInit ==
  /\ Idle
  /\ Elsewhere
  /\ env = Unset
  /\ loaded = NotLoaded
  /\ audit_log = <<>>
  /\ token_file \in TokenFiles
  /\ temp_files = <<>>
  /\ \E encryption_key \in KeySources : client = Client("none", encryption_key, "none", "none", NoFile, 0)
  /\ auth = NoAuth
  /\ crypt = NoCrypt

\* ... builds a SchwabClient (again, in a later process) ...
Construct ==
  /\ client.count < MaxConstructions
  /\ \E io \in WriteOutcomes :
       LET built == SchwabClientInit(client.key_source, token_file, io)
       IN /\ token_file' = built.file
          /\ client' = Client(IF built.ok THEN "constructed" ELSE "raised", client.key_source, "none", client.state, token_file, client.count + 1)
  /\ auth' = NoAuth
  /\ UNCHANGED <<temp_files, crypt, env, loaded, audit_log, consent, audit, race, engine>>

\* ... and calls authenticate on it
ClientAuthenticate ==
  /\ client.state = "constructed"
  /\ auth.outcome = "none"
  /\ \E tmp \in TempOutcomes, lib \in Libraries, io \in WriteOutcomes :
       LET ended == Authenticate(client.key_source, token_file, tmp, lib, io)
       IN /\ token_file' = ended.file
          /\ temp_files' = temp_files \o ended.temps
          /\ client' = [client EXCEPT !._client = ended._client]
          /\ auth' = Auth(ended.outcome, token_file, ended.temps, ended.oauth, ended.plaintext_read, tmp, lib.returns)
  /\ UNCHANGED <<crypt, env, loaded, audit_log, consent, audit, race, engine>>

VaultNext ==
  \/ Construct
  \/ ClientAuthenticate

VaultSpec == VaultInit /\ [][VaultNext]_vars

\* a dictionary and two TokenEncryption objects ...
CryptInit ==
  /\ Idle
  /\ Elsewhere
  /\ env = Unset
  /\ loaded = NotLoaded
  /\ audit_log = <<>>
  /\ token_file = NoFile
  /\ temp_files = <<>>
  /\ client = Client("none", NoKey, "none", "none", NoFile, 0)
  /\ auth = NoAuth
  /\ \E token_data \in TokenDicts, k1, k2 \in KeySources \ {NoKey} : crypt = Crypt("input", token_data, k1, k2, FALSE, NoResult)

\* ... decrypt_tokens(encrypt_tokens(token_data)) with the first ...
EncryptThenDecrypt ==
  /\ crypt.op = "input"
  /\ LET encrypted == EncryptTokens(crypt.k1, crypt.token_data)
     IN crypt' = [crypt EXCEPT !.op = "decrypt_encrypt", !.result = IF encrypted.ok THEN DecryptTokens(crypt.k1, encrypted.value) ELSE TokenEncryptionError]
  /\ UNCHANGED <<token_file, temp_files, client, auth, env, loaded, audit_log, consent, audit, race, engine>>

\* ... save_encrypted_tokens then load_encrypted_tokens of the same path with the first ...
SaveThenLoad ==
  /\ crypt.op = "input"
  /\ \E io \in WriteOutcomes :
       LET saved == SaveEncryptedTokens(crypt.k1, crypt.token_data, token_file, io)
       IN /\ token_file' = saved.file
          /\ crypt' = [crypt EXCEPT !.op = "load_save", !.saved = saved.ok, !.result = IF saved.file.kind = "absent" THEN NoResult ELSE LoadEncryptedTokens(crypt.k1, saved.file)]
  /\ UNCHANGED <<temp_files, client, auth, env, loaded, audit_log, consent, audit, race, engine>>

\* ... or encrypt_tokens with the first and decrypt_tokens with the second
EncryptThenDecryptWithOther ==
  /\ crypt.op = "input"
  /\ LET encrypted == EncryptTokens(crypt.k1, crypt.token_data)
     IN crypt' = [crypt EXCEPT !.op = "decrypt_other", !.result = IF encrypted.ok THEN DecryptTokens(crypt.k2, encrypted.value) ELSE TokenEncryptionError]
  /\ UNCHANGED <<token_file, temp_files, client, auth, env, loaded, audit_log, consent, audit, race, engine>>

CryptNext ==
  \/ EncryptThenDecrypt
  \/ SaveThenLoad
  \/ EncryptThenDecryptWithOther

CryptSpec == CryptInit /\ [][CryptNext]_vars

\* ------------------------------------------------------------ audit logger
\* log calls made on the audit loggers of one process
MaxEntries == 2

\* a Python dict without key k
DictDel(dict, k) == [x \in DOMAIN dict \ {k} |-> dict[x]]

\* redact_char * n
Stars(n) == [i \in 1..n |-> "*"]

\* len(str(n)) for an integer n >= 0
RECURSIVE Digits(_)
Digits(n) == IF n < 10 THEN 1 ELSE 1 + Digits(n \div 10)

\* int(float('inf')) raises
OverflowError == [ok |-> FALSE]

\* validation.redact_sensitive (strings are tuples of characters)
RedactSensitive(value, visible_chars) ==
  IF Len(value) = 0 THEN <<>>
  ELSE IF Len(value) <= visible_chars THEN Stars(Len(value))
  ELSE Stars(Len(value) - visible_chars) \o SubSeq(value, Len(value) - visible_chars + 1, Len(value))

\* validation.redact_account_number
RedactAccountNumber(account_number) == RedactSensitive(account_number, 4)

\* validation.redact_amount: "$" + "*" * len(str(int(abs(amount)))) + ".**";
\* amounts are exact rationals or Inf
RedactAmount(amount) ==
  IF ~IsFinite(amount) THEN OverflowError
  ELSE Returned(<<"$">> \o Stars(Digits(PyInt(RAbs(amount)))) \o <<".", "*", "*">>)

\* mutant: the nested details are written as they came
RedactEntryAtTopOnly(entry) ==
  LET account == IF "account_number" \in DOMAIN entry
                   THEN DictSet(entry, "account_number", RedactAccountNumber(entry["account_number"]))
                   ELSE entry
      display == IF "amount" \in DOMAIN entry THEN RedactAmount(entry["amount"]) ELSE Returned(<<>>)
  IN IF ~display.ok THEN display
     ELSE Returned(IF "amount" \in DOMAIN entry THEN DictSet(account, "amount_display", display.value) ELSE account)

\* AuditLogger._redact_entry: a copy with the account number masked, an
\* amount_display next to a numeric amount, and the details redacted likewise
RECURSIVE RedactEntry(_)
RedactEntry(entry) ==
  LET account == IF "account_number" \in DOMAIN entry
                   THEN DictSet(entry, "account_number", RedactAccountNumber(entry["account_number"]))
                   ELSE entry
      display == IF "amount" \in DOMAIN entry THEN RedactAmount(entry["amount"]) ELSE Returned(<<>>)
      amount == IF "amount" \in DOMAIN entry THEN DictSet(account, "amount_display", display.value) ELSE account
      details == IF "details" \in DOMAIN entry THEN RedactEntry(entry["details"]) ELSE Returned(<<>>)
  IN IF ~display.ok THEN display
     ELSE IF ~details.ok THEN details
     ELSE Returned(IF "details" \in DOMAIN entry THEN DictSet(amount, "details", details.value) ELSE amount)

\* hashlib.sha256(serialized.encode()).hexdigest()[:16] of the sorted-keys
\* JSON text of a dict, kept symbolic: the digest stands for what was hashed
Sha256(entry_copy) == [sha256 |-> entry_copy]

\* mutant: the previous hash never enters the digest
ComputeHashUnchained(_last_hash, entry) ==
  Sha256(entry)

\* AuditLogger._compute_hash
ComputeHash(_last_hash, entry) ==
  Sha256(IF _last_hash.some THEN DictSet(entry, "_prev_hash", _last_hash.v) ELSE entry)

\* AuditLogger.log up to "Add process info": the optional fields enter the
\* entry when truthy (account_number, details) or not None (amount)
BuildEntry(now, args) ==
  LET base == [x \in {"timestamp", "event_type", "success", "pid"} |->
                 IF x = "timestamp" THEN now ELSE IF x = "event_type" THEN args.event_type
                 ELSE IF x = "success" THEN "True" ELSE "pid"]
      account == IF args.account_number.some /\ Len(args.account_number.v) > 0
                   THEN DictSet(base, "account_number", args.account_number.v) ELSE base
      amount == IF args.amount.some THEN DictSet(account, "amount", args.amount.v) ELSE account
  IN IF args.details.some /\ DOMAIN args.details.v # {}
       THEN DictSet(amount, "details", args.details.v) ELSE amount

\* an AuditLogger instance
Logger(constructed, log_file, redact_sensitive, include_hash_chain, _last_hash) ==
  [constructed |-> constructed, log_file |-> log_file, redact_sensitive |-> redact_sensitive,
   include_hash_chain |-> include_hash_chain, _last_hash |-> _last_hash]

NoLogger == Logger(FALSE, "none", TRUE, TRUE, None)

\* AuditLogger.log: what it returns or raises, the line handed to the
\* shared logger, and the instance's _last_hash afterwards
Log(logger, now, args) ==
  LET built == BuildEntry(now, args)
      entry == IF logger.include_hash_chain
                 THEN DictSet(built, "_hash", ComputeHash(logger._last_hash, built)) ELSE built
      _last_hash == IF logger.include_hash_chain THEN Some(entry["_hash"]) ELSE logger._last_hash
      log_entry == IF logger.redact_sensitive THEN RedactEntry(entry) ELSE Returned(entry)
  IN [returned |-> log_entry.ok, entry |-> entry, _last_hash |-> _last_hash,
      line |-> IF log_entry.ok THEN Some(log_entry.value) ELSE None]

\* the files audit loggers are pointed at
AuditFiles == {"audit.log", "other.log"}

Account6 == <<"1", "2", "3", "4", "5", "6">>

Account3 == <<"1", "2", "3">>

\* arguments of a log call
LogArgs(event_type, account_number, amount, details) ==
  [event_type |-> event_type, account_number |-> account_number, amount |-> amount, details |-> details]

LogArguments ==
  { LogArgs("config_loaded", None, None, None),
    LogArgs("trade_executed", Some(Account6), Some(Rat(1505, 10)), None),
    LogArgs("trade_executed", Some(Account3), Some(RInt(0)), Some([x \in {"account_number", "amount"} |-> IF x = "account_number" THEN Account6 ELSE RInt(-25)])),
    LogArgs("trade_failed", Some(Account6), None, Some([x \in {"account_number"} |-> Account3])),
    LogArgs("trade_failed", None, Some(Inf), None),
    LogArgs("auth_success", None, None, Some([x \in {"details"} |-> [y \in {"account_number"} |-> Account6]])) }

\* the loggers of the process, the handlers of logging.getLogger("schwab_audit"),
\* the files, and the log calls made so far
Audit(loggers, handlers, files, calls) ==
  [loggers |-> loggers, handlers |-> handlers, files |-> files, calls |-> calls]

\* the first AuditLogger has been constructed on audit.log: _setup_logger
\* cleared the handlers of the shared logger and added its own
AuditInit ==
  /\ Idle
  /\ consent = NoConsent
  /\ race = NoRace
  /\ env = Unset
  /\ loaded = NotLoaded
  /\ NoVault
  /\ audit_log = <<>>
  /\ \E redact_sensitive, include_hash_chain \in BOOLEAN :
       audit = Audit([i \in 1..2 |-> IF i = 1 THEN Logger(TRUE, "audit.log", redact_sensitive, include_hash_chain, None) ELSE NoLogger],
                     <<"audit.log">>, [f \in AuditFiles |-> <<>>], <<>>)

\* AuditLogger.__init__ and _setup_logger of a second instance
AuditConstruct ==
  /\ ~audit.loggers[2].constructed
  /\ \E log_file \in AuditFiles, redact_sensitive, include_hash_chain \in BOOLEAN :
       audit' = [audit EXCEPT !.loggers[2] = Logger(TRUE, log_file, redact_sensitive, include_hash_chain, None),
                              !.handlers = <<log_file>>]
  /\ UNCHANGED <<env, loaded, token_file, temp_files, client, auth, crypt, audit_log, consent, race, engine>>

\* AuditLogger.log on one of the instances: self._logger.info hands the
\* line to every handler of the shared logger
AuditLog ==
  /\ Len(audit.calls) < MaxEntries
  /\ \E i \in 1..2, args \in LogArguments :
       /\ audit.loggers[i].constructed
       /\ LET now == Len(audit.calls) + 1
              r == Log(audit.loggers[i], now, args)
              wrote == IF r.returned THEN audit.handlers ELSE <<>>
          IN audit' = [audit EXCEPT
                         !.loggers[i]._last_hash = r._last_hash,
                         !.files = [f \in AuditFiles |->
                                      IF \E h \in 1..Len(wrote) : wrote[h] = f
                                        THEN Append(audit.files[f], r.line.v) ELSE audit.files[f]],
                         !.calls = Append(audit.calls, [by |-> i, args |-> args, returned |-> r.returned,
                                                        entry |-> r.entry, wrote |-> wrote])]
  /\ UNCHANGED <<env, loaded, token_file, temp_files, client, auth, crypt, audit_log, consent, race, engine>>

AuditNext ==
  \/ AuditConstruct
  \/ AuditLog

AuditSpec == AuditInit /\ [][AuditNext]_vars

\* ------------------------------------------- concurrent dashboard requests
\* the dashboard serves every request in a thread of its own (app.run): two
\* POSTs to /api/strategies/rebalance work on one account
Invocations == 1..2

\* the account at the broker: positions and liquidation value
Account(positions, liquidationValue) == [positions |-> positions, liquidationValue |-> liquidationValue]

\* the broker books a filled market order: the market value of the position
\* moves by quantity * price
RECURSIVE Booked(_, _, _)
Booked(positions, symbol, change) ==
  IF Len(positions) = 0
    THEN <<[symbol |-> symbol, assetType |-> "EQUITY", marketValue |-> change, longQuantity |-> 0]>>
  ELSE IF Head(positions).symbol = symbol
    THEN <<[Head(positions) EXCEPT !.marketValue = @ + change]>> \o Tail(positions)
  ELSE <<Head(positions)>> \o Booked(Tail(positions), symbol, change)

\* one request being served: where its thread stands, its locals, and how
\* many orders the broker had booked at its reads
Invocation(at, dry, threshold) ==
  [pc |-> at, dry_run |-> dry, threshold |-> threshold, positions |-> <<>>, liquidationValue |-> 0,
   actions |-> <<>>, total_value |-> 0, idx |-> 1, quote |-> 0, results |-> <<>>, seen |-> 0, sized |-> 0]

\* config.target_allocation
RaceTarget == <<Item(SPY, 5, 10), Item(AGG, 5, 10)>>

\* "threshold" of the request body
RaceThresholds == {Rat(5, 100), Rat(1, 2), Rat(6, 10)}

\* what get_quote answers while the requests are served
RaceQuotes == {[ok |-> FALSE, present |-> FALSE, lastPrice |-> 0], [ok |-> TRUE, present |-> TRUE, lastPrice |-> 10]}

RaceAccounts ==
  { Account(<<[symbol |-> SPY, assetType |-> "EQUITY", marketValue |-> 80, longQuantity |-> 0]>>, 100),
    Account(<<[symbol |-> AGG, assetType |-> "EQUITY", marketValue |-> 30, longQuantity |-> 0],
              [symbol |-> SPY, assetType |-> "EQUITY", marketValue |-> 70, longQuantity |-> 0]>>, 100) }

\* the account, the two invocations and the orders the broker received
Race(account, threads, orders) == [account |-> account, threads |-> threads, orders |-> orders]

RaceInit ==
  /\ Idle
  /\ consent = NoConsent
  /\ audit = NoAudit
  /\ env = Unset
  /\ loaded = NotLoaded
  /\ NoVault
  /\ audit_log = <<>>
  /\ \E account \in RaceAccounts :
       race = Race(account, [t \in Invocations |-> Invocation("idle", TRUE, Rat(5, 100))], <<>>)

\* where the loop of _execute_rebalancing goes after the action at idx
AfterAction(thread) == IF thread.idx + 1 > Len(thread.actions) THEN "done" ELSE "quote"

\* api_rebalance up to strategy.execute: the body is read and the threshold
\* validated (400 on ValidationError)
RaceRequest(t) ==
  /\ race.threads[t].pc = "idle"
  /\ \E dry \in BOOLEAN, threshold \in RaceThresholds :
       LET validated == ValidateThreshold(Some(threshold), Rat(1, 1000), Rat(1, 2))
       IN race' = [race EXCEPT !.threads[t] =
                     IF validated.ok THEN Invocation("entered", dry, validated.value)
                     ELSE Invocation("done", dry, threshold)]

\* mutant: an invocation waits until no other one is under way
RaceGetPositionsUnderLock(t) ==
  /\ race.threads[t].pc = "entered"
  /\ \A u \in Invocations \ {t} : race.threads[u].pc \in {"idle", "entered", "done"}
  /\ race' = [race EXCEPT !.threads[t].pc = "balances",
                          !.threads[t].positions = race.account.positions,
                          !.threads[t].seen = Len(race.orders)]

\* RebalanceStrategy.execute: client.get_positions
RaceGetPositions(t) ==
  /\ race.threads[t].pc = "entered"
  /\ race' = [race EXCEPT !.threads[t].pc = "balances",
                          !.threads[t].positions = race.account.positions,
                          !.threads[t].seen = Len(race.orders)]

\* RebalanceStrategy.execute: client.get_account_balances, the current
\* allocation and the actions; no action returns []
RaceGetBalances(t) ==
  /\ race.threads[t].pc = "balances"
  /\ LET thread == race.threads[t]
         balances == [liquidationValue |-> race.account.liquidationValue]
         current_allocation == CalculateCurrentAllocation(thread.positions, balances)
         actions == CalculateRebalancingActions(current_allocation, RaceTarget, thread.threshold, 1)
     IN race' = [race EXCEPT !.threads[t].pc = IF Len(actions) = 0 THEN "done" ELSE "sizing",
                             !.threads[t].liquidationValue = balances.liquidationValue,
                             !.threads[t].actions = actions]

\* RebalanceStrategy._execute_rebalancing: the fresh balance read
RaceSizing(t) ==
  /\ race.threads[t].pc = "sizing"
  /\ race' = [race EXCEPT !.threads[t].pc = "quote",
                          !.threads[t].total_value = race.account.liquidationValue,
                          !.threads[t].sized = Len(race.orders)]

\* RebalanceStrategy._execute_trade up to its place_order call: the quote is
\* read and the shares are computed; a raise, a skip and a dry run end the
\* iteration here
RaceQuote(t) ==
  /\ race.threads[t].pc = "quote"
  /\ \E q \in RaceQuotes :
       LET thread == race.threads[t]
           it == RebalanceIterate(thread.idx, thread.actions[thread.idx], thread.total_value, thread.dry_run, q, [ok |-> TRUE, order_id |-> "1001"])
       IN IF Len(it.calls) = 2
            THEN race' = [race EXCEPT !.threads[t].pc = "place", !.threads[t].quote = q.lastPrice]
            ELSE race' = [race EXCEPT !.threads[t].pc = AfterAction(thread),
                                      !.threads[t].idx = thread.idx + 1,
                                      !.threads[t].results = thread.results \o it.results]

\* RebalanceStrategy._execute_trade, client.place_order and the result
RacePlace(t) ==
  /\ race.threads[t].pc = "place"
  /\ \E po \in PlaceResponses :
       LET thread == race.threads[t]
           action == thread.actions[thread.idx]
           q == [ok |-> TRUE, present |-> TRUE, lastPrice |-> thread.quote]
           it == RebalanceIterate(thread.idx, action, thread.total_value, thread.dry_run, q, po)
           order == it.calls[2]
           change == (IF order.instruction = "BUY" THEN 1 ELSE -1) * order.quantity * thread.quote
       IN race' = [race EXCEPT !.threads[t].pc = AfterAction(thread),
                               !.threads[t].idx = thread.idx + 1,
                               !.threads[t].results = thread.results \o it.results,
                               !.orders = Append(race.orders, [by |-> t, elem |-> thread.idx, symbol |-> order.symbol, instruction |-> order.instruction,
                                                               quantity |-> order.quantity, price |-> thread.quote, ok |-> po.ok]),
                               !.account.positions = IF po.ok THEN Booked(race.account.positions, order.symbol, change)
                                                     ELSE race.account.positions]

\* the next step of invocation t
RaceStep(t) ==
  \/ RaceGetPositions(t)
  \/ RaceGetBalances(t)
  \/ RaceSizing(t)
  \/ RaceQuote(t)
  \/ RacePlace(t)

RaceNext ==
  /\ \E t \in Invocations :
       \/ RaceRequest(t)
       \/ RaceStep(t)
  /\ UNCHANGED <<env, loaded, token_file, temp_files, client, auth, crypt, audit_log, consent, audit, engine>>

RaceSpec == RaceInit /\ [][RaceNext]_vars

\* DCAStrategy.execute up to the loop: empty list returns [] at once
DCAStart(symbols, total_amount, dry) ==
  /\ strategy' = "dca"
  /\ dry_run' = dry
  /\ work' = symbols
  /\ idx' = 1
  /\ results' = <<>>
  /\ origin' = <<>>
  /\ frames' = <<>>
  /\ IF Len(symbols) = 0
       THEN /\ pc' = "returned"
            /\ params' = [total_amount |-> total_amount, amount |-> total_amount]
       ELSE /\ pc' = "loop"
            /\ params' = [total_amount |-> total_amount, amount |-> RDivInt(total_amount, Len(symbols))]

DCAExecute ==
  /\ pc = "idle"
  /\ \E symbols \in EngineSymbolLists, total_amount \in EngineAmounts, dry \in BOOLEAN :
        DCAStart(symbols, total_amount, dry)
  /\ UNCHANGED <<gateway, request>>
  /\ UNCHANGED outside

DCAStep ==
  /\ pc = "loop"
  /\ strategy = "dca"
  /\ idx <= Len(work)
  /\ \E q \in QuoteResponses, po \in PlaceResponses :
        LET it == DCAIterate(idx, work[idx], params.amount, dry_run, q, po)
        IN /\ results' = results \o it.results
           /\ origin' = origin \o [i \in 1..Len(it.results) |-> idx]
           /\ gateway' = gateway \o it.calls
           /\ frames' = frames \o it.frames
  /\ idx' = idx + 1
  /\ UNCHANGED <<pc, strategy, dry_run, work, params, request>>
  /\ UNCHANGED outside

\* RebalanceStrategy.execute: both reads, current allocation, the decision
RebalanceStart(target_allocation, threshold, dry) ==
  /\ strategy' = "rebalance"
  /\ dry_run' = dry
  /\ idx' = 1
  /\ results' = <<>>
  /\ origin' = <<>>
  /\ frames' = <<>>
  /\ \E pr \in {PositionsResponse(FALSE, <<>>)} \cup {PositionsResponse(TRUE, ps) : ps \in RebalancePositions},
        br \in {BalancesResponse(FALSE, 0, 0)} \cup {BalancesResponse(TRUE, l, 0) : l \in LiquidationValues} :
        LET current_allocation == CalculateCurrentAllocation(pr.positions, br)
            actions == CalculateRebalancingActions(current_allocation, target_allocation, threshold, 1)
            base == [target_allocation |-> target_allocation, threshold |-> threshold]
        IN IF ~pr.ok
             THEN /\ gateway' = gateway \o <<PositionsCall(pr)>>
                  /\ pc' = "raised"
                  /\ work' = <<>>
                  /\ params' = base
           ELSE IF ~br.ok
             THEN /\ gateway' = gateway \o <<PositionsCall(pr), BalancesCall(br)>>
                  /\ pc' = "raised"
                  /\ work' = <<>>
                  /\ params' = base
           ELSE /\ gateway' = gateway \o <<PositionsCall(pr), BalancesCall(br)>>
                /\ work' = actions
                /\ params' = [target_allocation |-> target_allocation, threshold |-> threshold,
                              positions |-> pr.positions, liquidationValue |-> br.liquidationValue,
                              current_allocation |-> current_allocation]
                /\ pc' = IF Len(actions) = 0 THEN "returned" ELSE "sizing"

RebalanceExecute ==
  /\ pc = "idle"
  /\ \E target_allocation \in EngineTargets, threshold \in EngineThresholds, dry \in BOOLEAN :
        RebalanceStart(target_allocation, threshold, dry)
  /\ UNCHANGED request
  /\ UNCHANGED outside

\* RebalanceStrategy._execute_rebalancing: the fresh balance read
RebalanceSizing ==
  /\ pc = "sizing"
  /\ strategy = "rebalance"
  /\ \E br \in {BalancesResponse(FALSE, 0, 0)} \cup {BalancesResponse(TRUE, l, 0) : l \in SizingLiquidationValues} :
        /\ gateway' = gateway \o <<BalancesCall(br)>>
        /\ IF br.ok
             THEN /\ pc' = "loop"
                  /\ params' = [x \in DOMAIN params \cup {"total_value"} |->
                                  IF x = "total_value" THEN br.liquidationValue ELSE params[x]]
             ELSE /\ pc' = "raised"
                  /\ params' = params
  /\ UNCHANGED <<strategy, dry_run, work, idx, results, origin, frames, request>>
  /\ UNCHANGED outside

RebalanceStep ==
  /\ pc = "loop"
  /\ strategy = "rebalance"
  /\ idx <= Len(work)
  /\ \E q \in QuoteResponses, po \in PlaceResponses :
        LET it == RebalanceIterate(idx, work[idx], params.total_value, dry_run, q, po)
        IN /\ results' = results \o it.results
           /\ origin' = origin \o [i \in 1..Len(it.results) |-> idx]
           /\ gateway' = gateway \o it.calls
           /\ frames' = frames \o it.frames
  /\ idx' = idx + 1
  /\ UNCHANGED <<pc, strategy, dry_run, work, params, request>>
  /\ UNCHANGED outside

\* DRIPStrategy.execute and the guards of _reinvest_dividends before its loop
DRIPStart(dry) ==
  /\ strategy' = "drip"
  /\ dry_run' = dry
  /\ idx' = 1
  /\ results' = <<>>
  /\ origin' = <<>>
  /\ frames' = <<>>
  /\ \E pr \in {PositionsResponse(FALSE, <<>>)} \cup {PositionsResponse(TRUE, ps) : ps \in DRIPPositions},
        br \in {BalancesResponse(FALSE, 0, 0)} \cup {BalancesResponse(TRUE, 0, c) : c \in CashValues} :
        LET cash_available == br.cashAvailableForTrading
            dividend_positions == GetDividendPositions(pr.positions)
            total_value == SumMarketValue(dividend_positions)
        IN IF ~pr.ok
             THEN /\ gateway' = gateway \o <<PositionsCall(pr)>>
                  /\ pc' = "raised"
                  /\ work' = <<>>
                  /\ params' = [cash_available |-> 0, total_value |-> 0]
           ELSE IF ~br.ok
             THEN /\ gateway' = gateway \o <<PositionsCall(pr), BalancesCall(br)>>
                  /\ pc' = "raised"
                  /\ work' = <<>>
                  /\ params' = [cash_available |-> 0, total_value |-> 0]
           ELSE /\ gateway' = gateway \o <<PositionsCall(pr), BalancesCall(br)>>
                /\ work' = dividend_positions
                /\ params' = [cash_available |-> cash_available, total_value |-> total_value]
                /\ pc' = IF Len(dividend_positions) = 0 \/ cash_available < 10 \/ total_value = 0
                           THEN "returned" ELSE "loop"

DRIPExecute ==
  /\ pc = "idle"
  /\ \E dry \in BOOLEAN : DRIPStart(dry)
  /\ UNCHANGED request
  /\ UNCHANGED outside

DRIPStep ==
  /\ pc = "loop"
  /\ strategy = "drip"
  /\ idx <= Len(work)
  /\ \E q \in QuoteResponses, po \in PlaceResponses :
        LET it == DRIPIterate(idx, work[idx], params.cash_available, params.total_value, dry_run, q, po)
        IN /\ results' = results \o it.results
           /\ origin' = origin \o [i \in 1..Len(it.results) |-> idx]
           /\ gateway' = gateway \o it.calls
           /\ frames' = frames \o it.frames
  /\ idx' = idx + 1
  /\ UNCHANGED <<pc, strategy, dry_run, work, params, request>>
  /\ UNCHANGED outside

\* OpportunisticStrategy.execute up to the loop
OpportunisticStart(watchlist, dip_threshold, buy_amount, dry) ==
  /\ strategy' = "opportunistic"
  /\ dry_run' = dry
  /\ work' = watchlist
  /\ idx' = 1
  /\ results' = <<>>
  /\ origin' = <<>>
  /\ frames' = <<>>
  /\ params' = [dip_threshold |-> dip_threshold, buy_amount |-> buy_amount]
  /\ pc' = "loop"

OpportunisticExecute ==
  /\ pc = "idle"
  /\ \E watchlist \in EngineSymbolLists, dip_threshold \in DipThresholds, buy_amount \in BuyAmounts, dry \in BOOLEAN :
        OpportunisticStart(watchlist, dip_threshold, buy_amount, dry)
  /\ UNCHANGED <<gateway, request>>
  /\ UNCHANGED outside

OpportunisticStep ==
  /\ pc = "loop"
  /\ strategy = "opportunistic"
  /\ idx <= Len(work)
  /\ \E q \in DipQuoteResponses, po \in PlaceResponses :
        LET it == OpportunisticIterate(idx, work[idx], params.dip_threshold, params.buy_amount, dry_run, q, po)
        IN /\ results' = results \o it.results
           /\ origin' = origin \o [i \in 1..Len(it.results) |-> idx]
           /\ gateway' = gateway \o it.calls
           /\ frames' = frames \o it.frames
  /\ idx' = idx + 1
  /\ UNCHANGED <<pc, strategy, dry_run, work, params, request>>
  /\ UNCHANGED outside

\* OptionsStrategy.sell_covered_calls / buy_protective_puts up to the loop
OptionsStart(kind, positions, dry) ==
  /\ strategy' = (IF kind = "CALL" THEN "covered_calls" ELSE "protective_puts")
  /\ dry_run' = dry
  /\ idx' = 1
  /\ results' = <<>>
  /\ origin' = <<>>
  /\ frames' = <<>>
  /\ params' = [kind |-> kind, positions |-> positions]
  /\ \E pr \in {PositionsResponse(FALSE, <<>>)} \cup {PositionsResponse(TRUE, ps) : ps \in OptionsPositions} :
        /\ gateway' = gateway \o <<PositionsCall(pr)>>
        /\ work' = pr.positions
        /\ pc' = IF pr.ok THEN "loop" ELSE "raised"

OptionsStep ==
  /\ pc = "loop"
  /\ strategy \in {"covered_calls", "protective_puts"}
  /\ idx <= Len(work)
  /\ \E q \in QuoteResponses, ch \in ChainResponses, po \in PlaceResponses :
        LET it == OptionsIterate(params.kind, idx, work[idx], params.positions, dry_run, q, ch, po)
        IN /\ results' = results \o it.results
           /\ origin' = origin \o [i \in 1..Len(it.results) |-> idx]
           /\ gateway' = gateway \o it.calls
  /\ idx' = idx + 1
  /\ UNCHANGED <<pc, strategy, dry_run, work, params, frames, request>>
  /\ UNCHANGED outside

\* ------------------------------------------------------------ entry points
\* `value or default` on an optional float: None and 0.0 are falsy
OrDefault(opt, default) == IF opt.some /\ (~IsFinite(opt.v) \/ opt.v.n # 0) THEN opt.v ELSE default

\* a field of the JSON body of a dashboard request
Absent == [kind |-> "absent"]

Num(v) == [kind |-> "number", v |-> v]

Text == [kind |-> "text"]

Bool(b) == [kind |-> "bool", v |-> b]

Str(str) == [kind |-> "string", v |-> str]

\* float(data.get(key, default)): raises ValueError on text that is no number
PyFloat(field, default) ==
  IF field.kind = "text" THEN [ok |-> FALSE]
  ELSE [ok |-> TRUE, v |-> IF field.kind = "absent" THEN default ELSE field.v]

\* data.get("dryRun", True)
DryRunOf(field) == IF field.kind = "absent" THEN TRUE ELSE field.v

\* data.get("symbols", "")
SymbolsRawOf(field) == IF field.kind = "absent" THEN <<>> ELSE field.v

RECURSIVE StripEach(_)
StripEach(list) == IF Len(list) = 0 THEN <<>> ELSE <<StrStrip(Head(list))>> \o StripEach(Tail(list))

\* [s.strip() for s in symbols_raw.split(",") if s.strip()]
SplitStripped(symbols_raw) == DropEmpty(StripEach(StrSplit(symbols_raw, <<>>)))

\* how a handler ends before any strategy runs, or the arguments it runs one with
Abort == [outcome |-> "abort", validation_error |-> TRUE]

Cancelled == [outcome |-> "cancelled", validation_error |-> FALSE]

BadRequest == [outcome |-> "http400", validation_error |-> TRUE]

ServerError == [outcome |-> "http500", validation_error |-> FALSE]

Run(args) == [outcome |-> "run", validation_error |-> FALSE, args |-> args]

\* a prompt that is never taken as declined
DeclinedNever(dry, yes, confirmed) == FALSE

\* "if not dry_run and not yes: if not click.confirm(...): return"
Declined(dry, yes, confirmed) == ~dry /\ ~yes /\ ~confirmed

\* cli.dca
CliDca(config, amount, symbols, dry, yes, confirmed) ==
  LET invest_amount == ValidateAmount(Some(OrDefault(amount, config.dca_amount)), MinAmount, MaxAmount)
      symbol_list == ValidateSymbols(IF symbols.some THEN StrSplit(symbols.v, <<>>) ELSE config.dca_symbols, MinCount, MaxCount)
  IN IF ~invest_amount.ok \/ ~symbol_list.ok THEN Abort
     ELSE IF Declined(dry, yes, confirmed) THEN Cancelled
     ELSE Run([symbols |-> symbol_list.value, amount |-> invest_amount.value, dry_run |-> dry])

\* cli.drip
CliDrip(dry, yes, confirmed) == IF Declined(dry, yes, confirmed) THEN Cancelled ELSE Run([dry_run |-> dry])

\* cli.rebalance letting a rejected threshold through to the strategy
CliRebalanceProceedingUnvalidated(config, threshold, dry, yes, confirmed) ==
  LET raw_threshold == OrDefault(threshold, config.rebalance_threshold)
      rebal_threshold == ValidateThreshold(Some(raw_threshold), MinThreshold, MaxThreshold)
  IN IF Declined(dry, yes, confirmed) THEN Cancelled
     ELSE [outcome |-> "run", validation_error |-> ~rebal_threshold.ok,
           args |-> [target_allocation |-> config.target_allocation,
                     threshold |-> IF rebal_threshold.ok THEN rebal_threshold.value ELSE raw_threshold,
                     dry_run |-> dry]]

\* cli.rebalance
CliRebalance(config, threshold, dry, yes, confirmed) ==
  LET rebal_threshold == ValidateThreshold(Some(OrDefault(threshold, config.rebalance_threshold)), MinThreshold, MaxThreshold)
  IN IF ~rebal_threshold.ok THEN Abort
     ELSE IF Declined(dry, yes, confirmed) THEN Cancelled
     ELSE Run([target_allocation |-> config.target_allocation, threshold |-> rebal_threshold.value, dry_run |-> dry])

\* cli.opportunistic
CliOpportunistic(config, symbols, threshold, amount, dry, yes, confirmed) ==
  LET watchlist == ValidateSymbols(IF symbols.some THEN StrSplit(symbols.v, <<>>) ELSE config.dca_symbols, MinCount, MaxCount)
      dip_threshold == ValidateThreshold(Some(OrDefault(threshold, config.opportunistic_dip_threshold)), MinThreshold, MaxThreshold)
      buy_amount == ValidateAmount(Some(OrDefault(amount, RInt(100))), MinAmount, MaxAmount)
  IN IF ~watchlist.ok \/ ~dip_threshold.ok \/ ~buy_amount.ok THEN Abort
     ELSE IF Declined(dry, yes, confirmed) THEN Cancelled
     ELSE Run([watchlist |-> watchlist.value, dip_threshold |-> dip_threshold.value, buy_amount |-> buy_amount.value, dry_run |-> dry])

\* cli.covered_calls and cli.protective_puts: symbols are validated when given
CliOptions(symbols, dry, yes, confirmed) ==
  LET symbol_list == ValidateSymbols(StrSplit(symbols.v, <<>>), MinCount, MaxCount)
  IN IF symbols.some /\ ~symbol_list.ok THEN Abort
     ELSE IF Declined(dry, yes, confirmed) THEN Cancelled
     ELSE Run([positions |-> IF symbols.some THEN Some(symbol_list.value) ELSE None, dry_run |-> dry])

\* dashboard.api_dca; client_ok tells whether get_client() returns a client
ApiDca(body, client_ok) ==
  LET amount == PyFloat(body.amount, RInt(0))
      symbol_list == SplitStripped(SymbolsRawOf(body.symbols))
      valid_amount == ValidateAmount(Some(amount.v), MinAmount, MaxAmount)
      valid_symbols == ValidateSymbols(symbol_list, MinCount, MaxCount)
  IN IF ~amount.ok THEN ServerError
     ELSE IF ~valid_amount.ok \/ ~valid_symbols.ok THEN BadRequest
     ELSE IF ~client_ok THEN ServerError
     ELSE Run([symbols |-> valid_symbols.value, amount |-> valid_amount.value, dry_run |-> DryRunOf(body.dryRun)])

\* dashboard.api_drip
ApiDrip(body, client_ok) == IF ~client_ok THEN ServerError ELSE Run([dry_run |-> DryRunOf(body.dryRun)])

\* dashboard.api_rebalance
ApiRebalance(config, body, client_ok) ==
  LET threshold == PyFloat(body.threshold, config.rebalance_threshold)
      valid_threshold == ValidateThreshold(Some(threshold.v), MinThreshold, MaxThreshold)
  IN IF ~threshold.ok THEN ServerError
     ELSE IF ~valid_threshold.ok THEN BadRequest
     ELSE IF ~client_ok THEN ServerError
     ELSE Run([target_allocation |-> config.target_allocation, threshold |-> valid_threshold.value, dry_run |-> DryRunOf(body.dryRun)])

\* dashboard.api_opportunistic
ApiOpportunistic(config, body, client_ok) ==
  LET threshold == PyFloat(body.threshold, config.opportunistic_dip_threshold)
      amount == PyFloat(body.amount, RInt(100))
      symbol_list == SplitStripped(SymbolsRawOf(body.symbols))
      valid_symbols == ValidateSymbols(symbol_list, MinCount, MaxCount)
      valid_threshold == ValidateThreshold(Some(threshold.v), MinThreshold, MaxThreshold)
      valid_amount == ValidateAmount(Some(amount.v), MinAmount, MaxAmount)
  IN IF ~threshold.ok \/ ~amount.ok THEN ServerError
     ELSE IF ~valid_symbols.ok \/ ~valid_threshold.ok \/ ~valid_amount.ok THEN BadRequest
     ELSE IF ~client_ok THEN ServerError
     ELSE Run([watchlist |-> valid_symbols.value, dip_threshold |-> valid_threshold.value, buy_amount |-> valid_amount.value, dry_run |-> DryRunOf(body.dryRun)])

\* dashboard.api_covered_calls and api_protective_puts: "if symbols_raw:" guards the validation
ApiOptions(body, client_ok) ==
  LET symbols_raw == SymbolsRawOf(body.symbols)
      valid_symbols == ValidateSymbols(SplitStripped(symbols_raw), MinCount, MaxCount)
  IN IF Len(symbols_raw) > 0 /\ ~valid_symbols.ok THEN BadRequest
     ELSE IF ~client_ok THEN ServerError
     ELSE Run([positions |-> IF Len(symbols_raw) > 0 THEN Some(valid_symbols.value) ELSE None, dry_run |-> DryRunOf(body.dryRun)])

\* the environments and inputs explored
Config(dca_amount, dca_symbols, rebalance_threshold, opportunistic_dip_threshold) == [dca_amount |-> dca_amount, dca_symbols |-> dca_symbols, rebalance_threshold |-> rebalance_threshold, target_allocation |-> <<Item(SPY, 5, 10), Item(AGG, 5, 10)>>, opportunistic_dip_threshold |-> opportunistic_dip_threshold]

Configs == {Config(RInt(100), <<SPY, QQQ>>, Rat(5, 100), Rat(3, 100)), Config(RInt(0), <<<<"S", "P", "Y", "1">>>>, Rat(7, 10), RInt(0))}

CliAmounts == {None, Some(RInt(0)), Some(RInt(-100)), Some(Rat(4, 1000)), Some(Rat(50004, 1000)), Some(RInt(1000001)), Some(Inf)}

CliThresholds == {None, Some(RInt(0)), Some(Rat(1, 8)), Some(Rat(6, 10)), Some(Rat(-1, 10)), Some(Inf)}

CliSymbols == {None, Some(<<"S", "P", "Y", ",", "Q", "Q", "Q">>), Some(<<"s", "p", "y", ",", " ", "q", "q", "q">>), Some(<<"S", "P", "Y", ",", "S", "P", "Y">>), Some(<<"S", "P", "Y", "1">>), Some(<<>>)}

ApiAmounts == {Absent, Text, Num(RInt(-100)), Num(Rat(50004, 1000)), Num(Inf)}

ApiThresholds == {Absent, Text, Num(Rat(1, 8)), Num(Rat(6, 10))}

ApiSymbols == {Absent, Str(<<"S", "P", "Y", ",", "Q", "Q", "Q">>), Str(<<" ", "s", "p", "y", " ", ",", ",", "q", "q", "q">>), Str(<<"S", "P", "Y", "1">>), Str(<<"S", "P", "Y", ",", "S", "P", "Y">>), Str(<<" ", ",">>)}

ApiDryRuns == {Absent, Bool(TRUE), Bool(FALSE)}

\* a handler's verdict takes effect: the strategy starts, or the process is done with the request
Entered(via, command, h, start) ==
  /\ IF h.outcome = "run"
       THEN /\ start
            /\ request' = Request(via, command, "running", h.validation_error)
       ELSE /\ pc' = "exited"
            /\ request' = Request(via, command, h.outcome, h.validation_error)
            /\ UNCHANGED <<strategy, dry_run, work, idx, params, results, origin, gateway, frames>>
  /\ UNCHANGED beyond

\* a dashboard request or a scheduled job: nobody is asked
Enter(via, command, h, start) ==
  /\ Entered(via, command, h, start)
  /\ consent' = NoConsent

\* a CLI command, with its flags and the answer click.confirm would get
EnterCli(command, h, start, dry, yes, confirmed) ==
  /\ Entered("cli", command, h, start)
  /\ consent' = Consent(dry, yes, confirmed)

CliDcaCommand ==
  /\ pc = "idle"
  /\ \E config \in Configs, amount \in CliAmounts, symbols \in CliSymbols, dry, yes, confirmed \in BOOLEAN :
        LET h == CliDca(config, amount, symbols, dry, yes, confirmed)
        IN EnterCli("dca", h, DCAStart(h.args.symbols, h.args.amount, h.args.dry_run) /\ UNCHANGED gateway, dry, yes, confirmed)

CliDripCommand ==
  /\ pc = "idle"
  /\ \E dry, yes, confirmed \in BOOLEAN :
        LET h == CliDrip(dry, yes, confirmed)
        IN EnterCli("drip", h, DRIPStart(h.args.dry_run), dry, yes, confirmed)

CliRebalanceCommand ==
  /\ pc = "idle"
  /\ \E config \in Configs, threshold \in CliThresholds, dry, yes, confirmed \in BOOLEAN :
        LET h == CliRebalance(config, threshold, dry, yes, confirmed)
        IN EnterCli("rebalance", h, RebalanceStart(h.args.target_allocation, h.args.threshold, h.args.dry_run), dry, yes, confirmed)

CliOpportunisticCommand ==
  /\ pc = "idle"
  /\ \E config \in Configs, symbols \in CliSymbols, threshold \in CliThresholds, amount \in CliAmounts, dry, yes, confirmed \in BOOLEAN :
        LET h == CliOpportunistic(config, symbols, threshold, amount, dry, yes, confirmed)
        IN EnterCli("opportunistic", h,
                 OpportunisticStart(h.args.watchlist, h.args.dip_threshold, h.args.buy_amount, h.args.dry_run) /\ UNCHANGED gateway, dry, yes, confirmed)

CliCoveredCallsCommand ==
  /\ pc = "idle"
  /\ \E symbols \in CliSymbols, dry, yes, confirmed \in BOOLEAN :
        LET h == CliOptions(symbols, dry, yes, confirmed)
        IN EnterCli("covered_calls", h, OptionsStart("CALL", h.args.positions, h.args.dry_run), dry, yes, confirmed)

CliProtectivePutsCommand ==
  /\ pc = "idle"
  /\ \E symbols \in CliSymbols, dry, yes, confirmed \in BOOLEAN :
        LET h == CliOptions(symbols, dry, yes, confirmed)
        IN EnterCli("protective_puts", h, OptionsStart("PUT", h.args.positions, h.args.dry_run), dry, yes, confirmed)

ApiDcaRequest ==
  /\ pc = "idle"
  /\ \E amount \in ApiAmounts, symbols \in ApiSymbols, dryRun \in ApiDryRuns, client_ok \in BOOLEAN :
        LET h == ApiDca([amount |-> amount, symbols |-> symbols, dryRun |-> dryRun], client_ok)
        IN Enter("api", "dca", h, DCAStart(h.args.symbols, h.args.amount, h.args.dry_run) /\ UNCHANGED gateway)

ApiDripRequest ==
  /\ pc = "idle"
  /\ \E dryRun \in ApiDryRuns, client_ok \in BOOLEAN :
        LET h == ApiDrip([dryRun |-> dryRun], client_ok)
        IN Enter("api", "drip", h, DRIPStart(h.args.dry_run))

ApiRebalanceRequest ==
  /\ pc = "idle"
  /\ \E config \in Configs, threshold \in ApiThresholds, dryRun \in ApiDryRuns, client_ok \in BOOLEAN :
        LET h == ApiRebalance(config, [threshold |-> threshold, dryRun |-> dryRun], client_ok)
        IN Enter("api", "rebalance", h, RebalanceStart(h.args.target_allocation, h.args.threshold, h.args.dry_run))

ApiOpportunisticRequest ==
  /\ pc = "idle"
  /\ \E config \in Configs, symbols \in ApiSymbols, threshold \in ApiThresholds, amount \in ApiAmounts, dryRun \in ApiDryRuns, client_ok \in BOOLEAN :
        LET h == ApiOpportunistic(config, [symbols |-> symbols, threshold |-> threshold, amount |-> amount, dryRun |-> dryRun], client_ok)
        IN Enter("api", "opportunistic", h,
                 OpportunisticStart(h.args.watchlist, h.args.dip_threshold, h.args.buy_amount, h.args.dry_run) /\ UNCHANGED gateway)

ApiCoveredCallsRequest ==
  /\ pc = "idle"
  /\ \E symbols \in ApiSymbols, dryRun \in ApiDryRuns, client_ok \in BOOLEAN :
        LET h == ApiOptions([symbols |-> symbols, dryRun |-> dryRun], client_ok)
        IN Enter("api", "covered_calls", h, OptionsStart("CALL", h.args.positions, h.args.dry_run))

ApiProtectivePutsRequest ==
  /\ pc = "idle"
  /\ \E symbols \in ApiSymbols, dryRun \in ApiDryRuns, client_ok \in BOOLEAN :
        LET h == ApiOptions([symbols |-> symbols, dryRun |-> dryRun], client_ok)
        IN Enter("api", "protective_puts", h, OptionsStart("PUT", h.args.positions, h.args.dry_run))

\* a job of examples/scheduler.py whose strategy is disabled logs and returns
Disabled == [outcome |-> "disabled", validation_error |-> FALSE]

\* StrategyScheduler.run_dca; enabled is config.dca_enabled
SchedulerDca(config, enabled) ==
  IF ~enabled THEN Disabled
  ELSE Run([symbols |-> config.dca_symbols, amount |-> config.dca_amount, dry_run |-> FALSE])

\* StrategyScheduler.run_drip
SchedulerDrip(enabled) == IF ~enabled THEN Disabled ELSE Run([dry_run |-> FALSE])

\* StrategyScheduler.run_rebalance
SchedulerRebalance(config, enabled) ==
  IF ~enabled THEN Disabled
  ELSE Run([target_allocation |-> config.target_allocation, threshold |-> config.rebalance_threshold, dry_run |-> FALSE])

\* StrategyScheduler.run_opportunistic
SchedulerOpportunistic(config, enabled) ==
  IF ~enabled THEN Disabled
  ELSE Run([watchlist |-> config.dca_symbols, dip_threshold |-> config.opportunistic_dip_threshold, buy_amount |-> RInt(100), dry_run |-> FALSE])

SchedulerRunDca ==
  /\ pc = "idle"
  /\ \E config \in Configs, enabled \in BOOLEAN :
        LET h == SchedulerDca(config, enabled)
        IN Enter("scheduler", "dca", h, DCAStart(h.args.symbols, h.args.amount, h.args.dry_run) /\ UNCHANGED gateway)

SchedulerRunDrip ==
  /\ pc = "idle"
  /\ \E enabled \in BOOLEAN :
        LET h == SchedulerDrip(enabled)
        IN Enter("scheduler", "drip", h, DRIPStart(h.args.dry_run))

SchedulerRunRebalance ==
  /\ pc = "idle"
  /\ \E config \in Configs, enabled \in BOOLEAN :
        LET h == SchedulerRebalance(config, enabled)
        IN Enter("scheduler", "rebalance", h, RebalanceStart(h.args.target_allocation, h.args.threshold, h.args.dry_run))

SchedulerRunOpportunistic ==
  /\ pc = "idle"
  /\ \E config \in Configs, enabled \in BOOLEAN :
        LET h == SchedulerOpportunistic(config, enabled)
        IN Enter("scheduler", "opportunistic", h,
                 OpportunisticStart(h.args.watchlist, h.args.dip_threshold, h.args.buy_amount, h.args.dry_run) /\ UNCHANGED gateway)

\* the strategy came back to the handler: results are shown (CLI table, HTTP 200,
\* scheduler log line) or the exception it raised is (CLI error line, HTTP 500,
\* scheduler error log)
Respond ==
  /\ request.outcome = "running"
  /\ pc \in {"returned", "raised"}
  /\ request' = [request EXCEPT !.outcome = IF request.via = "api"
                                              THEN (IF pc = "returned" THEN "http200" ELSE "http500")
                                              ELSE (IF pc = "returned" THEN "results" ELSE "error")]
  /\ UNCHANGED <<pc, strategy, dry_run, work, idx, params, results, origin, gateway, frames>>
  /\ UNCHANGED outside

\* the loop is exhausted: "return results"
LoopReturn ==
  /\ pc = "loop"
  /\ idx > Len(work)
  /\ pc' = "returned"
  /\ UNCHANGED <<strategy, dry_run, work, idx, params, results, origin, gateway, frames, request>>
  /\ UNCHANGED outside

Next ==
  \/ DCAExecute
  \/ DCAStep
  \/ RebalanceExecute
  \/ RebalanceSizing
  \/ RebalanceStep
  \/ DRIPExecute
  \/ DRIPStep
  \/ OpportunisticExecute
  \/ OpportunisticStep
  \/ OptionsStep
  \/ LoopReturn
  \/ CliDcaCommand
  \/ CliDripCommand
  \/ CliRebalanceCommand
  \/ CliOpportunisticCommand
  \/ CliCoveredCallsCommand
  \/ CliProtectivePutsCommand
  \/ ApiDcaRequest
  \/ ApiDripRequest
  \/ ApiRebalanceRequest
  \/ ApiOpportunisticRequest
  \/ ApiCoveredCallsRequest
  \/ ApiProtectivePutsRequest
  \/ SchedulerRunDca
  \/ SchedulerRunDrip
  \/ SchedulerRunRebalance
  \/ SchedulerRunOpportunistic
  \/ Respond

Spec == Init /\ [][Next]_vars

\* =================================================================== claims
EquityStrategies == {"dca", "drip", "rebalance", "opportunistic"}

FrameIndexes == 1..Len(frames)

ResultIndexes == 1..Len(results)

CallIndexes == 1..Len(gateway)

\* the dollar figure a result reports ("amount", or "value" in a rebalance result)
Reported(r) == IF "amount" \in DOMAIN r THEN r.amount ELSE r.value

PlacedFor(e) == {i \in CallIndexes : gateway[i].op = "place_order" /\ gateway[i].elem = e}

ResultsFor(e) == {j \in ResultIndexes : origin[j] = e}

\* C1: in every equity strategy a dry-run invocation never calls place_order,
\* and each loop element whose computed share count is positive yields a
\* result with status dry_run carrying those shares, the quoted price and
\* shares * price.
C1_DryRunPlacesNoOrder ==
  (strategy \in EquityStrategies /\ dry_run) =>
    /\ \A i \in CallIndexes : gateway[i].op # "place_order"
    /\ \A k \in FrameIndexes :
         (frames[k].computed /\ frames[k].shares > 0) =>
           \E j \in ResultsFor(frames[k].elem) :
             /\ results[j].symbol = frames[k].symbol
             /\ results[j].status = "dry_run"
             /\ results[j].shares = frames[k].shares
             /\ results[j].price = frames[k].price
             /\ Reported(results[j]) = frames[k].shares * frames[k].price

C1_Witness ==
  /\ strategy = "rebalance" /\ dry_run /\ pc = "returned"
  /\ \E k \in FrameIndexes : frames[k].computed /\ frames[k].shares > 0

\* C2: the rebalance decision emits an action for a symbol exactly when the
\* symbol is a key of the target allocation and |current weight (0 when not
\* held) - target weight| > threshold; the direction is buy exactly when the
\* target weight exceeds the current weight, otherwise sell; a symbol held
\* but absent from the target never produces an action.
Decided == strategy = "rebalance" /\ "current_allocation" \in DOMAIN params

CurrentWeight(s) == IF s \in DOMAIN params.current_allocation THEN params.current_allocation[s] ELSE RInt(0)

TargetItems(s) == {i \in 1..Len(params.target_allocation) : params.target_allocation[i].symbol = s}

ExceedsThreshold(s, i) ==
  LET t == params.target_allocation[i].pct
      c == CurrentWeight(s)
      diff == IF RLess(c, t) THEN RSub(t, c) ELSE RSub(c, t)
  IN RLess(params.threshold, diff)

C2_ActionIffDeviationExceeds ==
  Decided =>
    /\ \A s \in Tickers :
         (\E a \in 1..Len(work) : work[a].symbol = s)
           <=> (\E i \in TargetItems(s) : ExceedsThreshold(s, i))
    /\ \A a \in 1..Len(work) :
         /\ \E i \in TargetItems(work[a].symbol) :
              (work[a].action = "buy") <=> RLess(CurrentWeight(work[a].symbol), params.target_allocation[i].pct)
         /\ work[a].action \in {"buy", "sell"}
         /\ \A b \in 1..Len(work) : work[b].symbol = work[a].symbol => a = b

C2_Witness ==
  /\ Decided
  /\ \E a, b \in 1..Len(work) : work[a].action = "buy" /\ work[b].action = "sell"
  /\ \E s \in DOMAIN params.current_allocation : TargetItems(s) = {}

\* C3 (as claimed): when the first balance read reports liquidation value 0,
\* RebalanceStrategy.execute returns the empty list: it emits no action, adds
\* no result entry and does not raise.
C3_ZeroLiquidationReturnsEmpty ==
  (Decided /\ params.liquidationValue = 0) =>
    /\ Len(work) = 0
    /\ Len(results) = 0
    /\ pc = "returned"

\* C4 (as claimed): in DCA, DRIP and Rebalance a quoted last price <= 0 makes
\* the step fail before a share count is computed and before place_order, so
\* the symbol's result is status failed and no order is submitted for it.
C4_NonPositivePriceFails ==
  strategy \in {"dca", "drip", "rebalance"} =>
    \A k \in FrameIndexes :
      (frames[k].quoted /\ frames[k].price <= 0) =>
        /\ ~frames[k].computed
        /\ frames[k].raised
        /\ PlacedFor(frames[k].elem) = {}
        /\ \E j \in ResultsFor(frames[k].elem) : results[j].status = "failed"

\* C5: for every dollar amount >= 0 and every price > 0 the step computes
\* shares = floor(amount / price), a non-negative integer, and the amount it
\* reports and the quantity it orders are shares * price <= amount and shares.
NonNegative(a) == a.n >= 0

C5_SharesAreFloor ==
  \A k \in FrameIndexes :
    LET f == frames[k]
    IN (f.computed /\ NonNegative(f.amount) /\ f.price > 0) =>
         /\ f.shares \in Nat
         /\ f.shares * f.price * f.amount.d <= f.amount.n
         /\ f.amount.n < (f.shares + 1) * f.price * f.amount.d
         /\ \A j \in ResultsFor(f.elem) :
              results[j].status \in {"dry_run", "success"} =>
                /\ results[j].shares = f.shares
                /\ Reported(results[j]) = f.shares * f.price
                /\ RLeq(RInt(Reported(results[j])), f.amount)
         /\ \A i \in PlacedFor(f.elem) : gateway[i].quantity = f.shares

C5_Witness ==
  \E k \in FrameIndexes :
    /\ frames[k].computed /\ frames[k].price > 0 /\ frames[k].shares > 0
    /\ frames[k].shares * frames[k].price * frames[k].amount.d < frames[k].amount.n
    /\ PlacedFor(frames[k].elem) # {}

\* C6: whenever the computed share count is 0 the step raises nothing, returns
\* a result with status skipped and does not call place_order, in dry-run and
\* in live mode alike.
C6_ZeroSharesSkipped ==
  \A k \in FrameIndexes :
    (frames[k].computed /\ frames[k].shares = 0) =>
      /\ ~frames[k].raised
      /\ PlacedFor(frames[k].elem) = {}
      /\ ResultsFor(frames[k].elem) # {}
      /\ \A j \in ResultsFor(frames[k].elem) :
           results[j].status = "skipped" /\ results[j].symbol = frames[k].symbol

C6_Witness ==
  /\ ~dry_run /\ pc = "returned"
  /\ \E k \in FrameIndexes : frames[k].computed /\ frames[k].shares = 0
  /\ \E i \in CallIndexes : gateway[i].op = "place_order"

\* C7: in the per-symbol loops of DCA, DRIP and Rebalance a failure on one
\* element (quote failure, invalid price, order-placement failure) is caught
\* and appended as {symbol, status failed, error} at that element's position,
\* every later element is still processed, and the invocation does not raise.
LoopEntered ==
  /\ Len(work) > 0
  /\ strategy = "drip" => (params.cash_available >= 10 /\ params.total_value # 0)

PassedOver(e) ==
  /\ strategy = "drip"
  /\ RLess(ReinvestAmount(work[e], params.cash_available, params.total_value), RInt(5))

C7_FailureRecordedLoopContinues ==
  strategy \in {"dca", "drip", "rebalance"} =>
    /\ \A k \in FrameIndexes :
         frames[k].raised =>
           /\ Cardinality(ResultsFor(frames[k].elem)) = 1
           /\ \A j \in ResultsFor(frames[k].elem) :
                /\ results[j].status = "failed"
                /\ results[j].symbol = frames[k].symbol
                /\ DOMAIN results[j] = {"symbol", "status", "error"}
    /\ \A i, j \in ResultIndexes : i < j => origin[i] < origin[j]
    /\ (frames # <<>>) => pc # "raised"
    /\ (pc = "returned" /\ LoopEntered) =>
         \A e \in 1..Len(work) : PassedOver(e) \/ (\E k \in FrameIndexes : frames[k].elem = e)

C7_Witness ==
  /\ strategy = "drip" /\ pc = "returned" /\ Len(frames) = 2
  /\ frames[1].raised /\ ~frames[2].raised
  /\ results[1].status = "failed" /\ results[2].status = "success"

\* C8 (as claimed): in the Opportunistic loop a gateway failure (quote fetch or
\* order placement) for one watchlist symbol is recorded in the returned
\* results as an entry with status failed for that symbol.
C8_OpportunisticFailureRecorded ==
  strategy = "opportunistic" =>
    \A k \in FrameIndexes :
      frames[k].raised =>
        \E j \in ResultsFor(frames[k].elem) :
          results[j].status = "failed" /\ results[j].symbol = frames[k].symbol

\* C9: within one invocation nothing is re-attempted: place_order is called at
\* most once per loop element, and after a failed get_quote or place_order for
\* an element no further gateway call is made for that element.
C9_NoRetry ==
  \A e \in 1..Len(work) :
    /\ Cardinality(PlacedFor(e)) <= 1
    /\ \A i, j \in CallIndexes :
         (i < j /\ gateway[i].elem = e /\ ~gateway[i].ok) => gateway[j].elem # e

C9_Witness ==
  /\ pc = "returned"
  /\ \E i, j \in CallIndexes :
       /\ i < j
       /\ gateway[i].op = "place_order" /\ ~gateway[i].ok /\ gateway[i].elem = 1
       /\ gateway[j].op = "place_order" /\ gateway[j].ok /\ gateway[j].elem = 2

\* C10: at the CLI and dashboard entry points, whenever a validator raises
\* ValidationError the error is surfaced (the CLI command aborts, the
\* dashboard answers HTTP 400), no strategy is executed and no gateway call
\* is made.
C10_ValidationErrorSurfaced ==
  request.validation_error =>
    /\ request.via \in {"cli", "api"}
    /\ request.outcome = (IF request.via = "cli" THEN "abort" ELSE "http400")
    /\ pc = "exited"
    /\ strategy = "none"
    /\ gateway = <<>>
    /\ results = <<>>

C10_Witness ==
  /\ request.validation_error
  /\ request.via = "api"
  /\ request.command = "opportunistic"
  /\ request.outcome = "http400"

\* C11 (as claimed): every amount, symbol list, threshold and target allocation
\* that reaches a strategy engine from an entry point (CLI command, dashboard
\* endpoint, scheduler job with the values the config loader holds) is a value
\* its validator returns: the validator accepts it and returns it unchanged.
IsValidatedAmount(amount) ==
  LET v == ValidateAmount(Some(amount), MinAmount, MaxAmount) IN v.ok /\ REq(v.value, amount)

IsValidatedSymbols(symbols) ==
  LET v == ValidateSymbols(symbols, MinCount, MaxCount) IN v.ok /\ v.value = symbols

IsValidatedThreshold(threshold) ==
  LET v == ValidateThreshold(Some(threshold), DefaultMinThreshold, DefaultMaxThreshold) IN v.ok /\ REq(v.value, threshold)

IsValidatedAllocation(allocation) ==
  LET v == ValidateAllocation(allocation, TRUE, Tolerance)
  IN /\ v.ok
     /\ Len(v.value) = Len(allocation)
     /\ \A i \in 1..Len(allocation) :
          v.value[i].symbol = allocation[i].symbol /\ REq(v.value[i].pct, allocation[i].pct)

C11_EntryPointValuesValidated ==
  (request.via \in {"cli", "api", "scheduler"} /\ strategy # "none") =>
    /\ strategy = "dca" => (IsValidatedSymbols(work) /\ IsValidatedAmount(params.total_amount))
    /\ strategy = "rebalance" => (IsValidatedAllocation(params.target_allocation) /\ IsValidatedThreshold(params.threshold))
    /\ strategy = "opportunistic" =>
         (IsValidatedSymbols(work) /\ IsValidatedThreshold(params.dip_threshold) /\ IsValidatedAmount(params.buy_amount))

\* C11 holds of the CLI commands and the dashboard endpoints
C11_CliAndApiValuesValidated ==
  (request.via \in {"cli", "api"} /\ strategy # "none") =>
    /\ strategy = "dca" => (IsValidatedSymbols(work) /\ IsValidatedAmount(params.total_amount))
    /\ strategy = "rebalance" => (IsValidatedAllocation(params.target_allocation) /\ IsValidatedThreshold(params.threshold))
    /\ strategy = "opportunistic" =>
         (IsValidatedSymbols(work) /\ IsValidatedThreshold(params.dip_threshold) /\ IsValidatedAmount(params.buy_amount))

\* C12 (as claimed): every target allocation Config holds, which is the
\* default or what validate_allocation returned with require_sum_to_one, has
\* every weight in (0, 1] and weights that sum to 1.0 within 0.001.
RECURSIVE SumWeights(_)
SumWeights(allocation) == IF Len(allocation) = 0 THEN RInt(0) ELSE RNorm(RAdd(Head(allocation).pct, SumWeights(Tail(allocation))))

C12_AllocationSumsToOne ==
  loaded.ok =>
    /\ \A i \in 1..Len(loaded.value) : RLess(RInt(0), loaded.value[i].pct) /\ RLeq(loaded.value[i].pct, RInt(1))
    /\ RLeq(RSub(RInt(1), Tolerance), SumWeights(loaded.value))
    /\ RLeq(SumWeights(loaded.value), RAdd(RInt(1), Tolerance))

\* C13 (as claimed): for every quote with last price and 52-week high both
\* non-zero the Opportunistic strategy attempts a buy exactly when
\* (high - last) / high >= threshold, or the intraday change (last - open) / open
\* (0 when open is 0) is negative with magnitude >= threshold; when the last
\* price or the high is 0 the symbol yields no result and no order.
QuoteFor(e) == gateway[CHOOSE i \in CallIndexes : gateway[i].op = "get_quote" /\ gateway[i].elem = e]

ClaimedIntraday(q) == IF q.open = 0 THEN RInt(0) ELSE RDivInt(RInt(q.price - q.open), q.open)

ClaimedDip(q, threshold) ==
  \/ RLeq(threshold, RDivInt(RInt(q.high - q.price), q.high))
  \/ (RLess(ClaimedIntraday(q), RInt(0)) /\ RLeq(threshold, RAbs(ClaimedIntraday(q))))

C13_BuyIffDip ==
  strategy = "opportunistic" =>
    \A k \in FrameIndexes :
      frames[k].quoted =>
        IF QuoteFor(frames[k].elem).price = 0 \/ QuoteFor(frames[k].elem).high = 0
          THEN ~frames[k].computed /\ ResultsFor(frames[k].elem) = {} /\ PlacedFor(frames[k].elem) = {}
          ELSE frames[k].computed <=> ClaimedDip(QuoteFor(frames[k].elem), params.dip_threshold)

\* C13 (amended): as C13, with the intraday change taken as 0 whenever the
\* open price is not positive.
ActualIntraday(q) == IF q.open > 0 THEN RDivInt(RInt(q.price - q.open), q.open) ELSE RInt(0)

ActualDip(q, threshold) ==
  \/ RLeq(threshold, RDivInt(RInt(q.high - q.price), q.high))
  \/ (RLess(ActualIntraday(q), RInt(0)) /\ RLeq(threshold, RAbs(ActualIntraday(q))))

C13_BuyIffDipAmended ==
  strategy = "opportunistic" =>
    \A k \in FrameIndexes :
      frames[k].quoted =>
        IF QuoteFor(frames[k].elem).price = 0 \/ QuoteFor(frames[k].elem).high = 0
          THEN ~frames[k].computed /\ ResultsFor(frames[k].elem) = {} /\ PlacedFor(frames[k].elem) = {}
          ELSE frames[k].computed <=> ActualDip(QuoteFor(frames[k].elem), params.dip_threshold)

\* a buy attempted on the intraday trigger alone, and a quote with a zero high passed over
C13_Witness ==
  /\ strategy = "opportunistic" /\ pc = "returned" /\ Len(frames) = 2
  /\ frames[1].computed /\ QuoteFor(1).high = QuoteFor(1).price /\ QuoteFor(1).open > QuoteFor(1).price
  /\ ~frames[2].computed /\ frames[2].quoted /\ QuoteFor(2).high = 0

\* C14 (as claimed): DCAStrategy.execute over n >= 1 symbols attempts each
\* symbol with exactly total_amount / n dollars, returns exactly one result
\* per symbol in input order, goes on to the other symbols after a quote
\* failure, and the shares * price of all submitted orders together never
\* exceed total_amount; over an empty list it returns [] without a gateway call.
RECURSIVE SubmittedValue(_)
SubmittedValue(k) ==
  IF k = 0 THEN 0
  ELSE (IF PlacedFor(frames[k].elem) # {} THEN frames[k].shares * frames[k].price ELSE 0) + SubmittedValue(k - 1)

C14_DCAIndependentEvenSplit ==
  strategy = "dca" =>
    /\ \A k \in FrameIndexes : REq(frames[k].amount, RDivInt(params.total_amount, Len(work)))
    /\ \A j \in ResultIndexes : origin[j] = j /\ results[j].symbol = work[j]
    /\ pc = "returned" =>
         /\ Len(results) = Len(work)
         /\ \A e \in 1..Len(work) : \E i \in CallIndexes : gateway[i].op = "get_quote" /\ gateway[i].elem = e
    /\ (\E i \in CallIndexes : gateway[i].op = "place_order") =>
         RLeq(RInt(SubmittedValue(Len(frames))), params.total_amount)
    /\ Len(work) = 0 => (pc = "returned" /\ results = <<>> /\ gateway = <<>>)

\* C14 holds of every invocation whose total_amount is not negative
C14_DCANonNegativeAmount ==
  (strategy = "dca" /\ params.total_amount.n >= 0) =>
    /\ \A k \in FrameIndexes : REq(frames[k].amount, RDivInt(params.total_amount, Len(work)))
    /\ \A j \in ResultIndexes : origin[j] = j /\ results[j].symbol = work[j]
    /\ pc = "returned" =>
         /\ Len(results) = Len(work)
         /\ \A e \in 1..Len(work) : \E i \in CallIndexes : gateway[i].op = "get_quote" /\ gateway[i].elem = e
    /\ (\E i \in CallIndexes : gateway[i].op = "place_order") =>
         RLeq(RInt(SubmittedValue(Len(frames))), params.total_amount)
    /\ Len(work) = 0 => (pc = "returned" /\ results = <<>> /\ gateway = <<>>)

\* Python's == on these values: a list never equals a tuple, an int never a
\* str, and dicts are equal when they hold equal values under the same keys
RECURSIVE PyEq(_, _)
PyEq(x, y) ==
  IF x.t # y.t THEN FALSE
  ELSE IF x.t \in {"list", "tuple"} THEN Len(x.c) = Len(y.c) /\ \A i \in 1..Len(x.c) : PyEq(x.c[i], y.c[i])
  ELSE IF x.t = "dict" THEN
    /\ Len(x.c) = Len(y.c)
    /\ \A i \in 1..Len(x.c) : \E j \in 1..Len(y.c) : x.c[i].k = y.c[j].k /\ PyEq(x.c[i].v, y.c[j].v)
  ELSE x.a = y.a

\* C15: once a call of SchwabClient.authenticate has returned or raised
\* (client created, temporary file not written, client construction failed,
\* OAuth flow failed), no temporary plaintext token file of that call is left
\* on disk
C15_NoTemporaryFileRemains ==
  auth.outcome # "none" => auth.left = <<>> /\ temp_files = <<>>

\* the same, leaving out the calls whose write of the temporary file failed
C15_ExceptTemporaryWriteFailure ==
  (auth.outcome # "none" /\ auth.tmp # "write") => auth.left = <<>>

\* C16: when the token file exists and cannot be decrypted (wrong key,
\* corrupted data), authenticate raises the encryption error, starts no OAuth
\* flow, creates no client, does not read the file as plaintext, and leaves
\* the token file as it was
C16_DecryptionFailureRaised ==
  (auth.outcome # "none" /\ auth.before.kind # "absent" /\ ~LoadEncryptedTokens(client.key_source, auth.before).ok) =>
    /\ auth.outcome = "TokenEncryptionError"
    /\ ~auth.oauth
    /\ client._client = "none"
    /\ ~auth.plaintext_read
    /\ token_file = auth.before

\* authenticate has raised on a token file of another key although schwab-py would have handed out a client
C16_Witness ==
  /\ auth.outcome = "TokenEncryptionError"
  /\ auth.before.kind = "fernet"
  /\ auth.before.key # CreateFernet(client.key_source)
  /\ auth.returns
  /\ token_file = auth.before

\* the round trips: decrypt of encrypt, and load after a save that returned
RoundTripDone == crypt.op = "decrypt_encrypt" \/ (crypt.op = "load_save" /\ crypt.saved)

\* a value as json.loads builds it: string keys, lists, no tuple, no set
RECURSIVE JsonShaped(_)
JsonShaped(o) ==
  IF o.t \in {"str", "int"} THEN TRUE
  ELSE IF o.t = "list" THEN \A i \in 1..Len(o.c) : JsonShaped(o.c[i])
  ELSE IF o.t = "dict" THEN \A i \in 1..Len(o.c) : o.c[i].k.t = "str" /\ JsonShaped(o.c[i].v)
  ELSE FALSE

\* C17: for a fixed key and every JSON-serializable token dictionary d,
\* decrypt_tokens(encrypt_tokens(d)) equals d, and load_encrypted_tokens of a
\* path after save_encrypted_tokens(d, path) equals d
C17_RoundTrip ==
  (RoundTripDone /\ Serializable(crypt.token_data)) =>
    crypt.result.ok /\ PyEq(crypt.result.value, crypt.token_data)

\* the round trips give back every dictionary that has the shape of a JSON
\* object: string keys, and strings, numbers, lists and such objects as values
C17_RoundTripOfJsonObjects ==
  (RoundTripDone /\ JsonShaped(crypt.token_data)) =>
    crypt.result.ok /\ PyEq(crypt.result.value, crypt.token_data)

\* a dictionary of two entries came back from the file it was saved to
C17_Witness ==
  /\ crypt.op = "load_save"
  /\ crypt.saved
  /\ token_file.kind = "fernet"
  /\ JsonShaped(crypt.token_data)
  /\ Len(crypt.token_data.c) = 2
  /\ crypt.result.ok
  /\ PyEq(crypt.result.value, crypt.token_data)

\* C18: for two different keys k1 and k2 and every token dictionary,
\* decrypting with k2 what was encrypted with k1 raises the encryption error
\* and never returns a value (the keys being the Fernet keys that the two key
\* sources stand for)
C18_WrongKeyRaises ==
  (crypt.op = "decrypt_other" /\ CreateFernet(crypt.k1) # CreateFernet(crypt.k2)) =>
    crypt.result = TokenEncryptionError

\* a dictionary that encrypts under a passphrase was refused under a direct key
C18_Witness ==
  /\ crypt.op = "decrypt_other"
  /\ crypt.k1.kind = "passphrase"
  /\ crypt.k2.kind = "key"
  /\ CreateFernet(crypt.k1) # CreateFernet(crypt.k2)
  /\ EncryptTokens(crypt.k1, crypt.token_data).ok
  /\ crypt.result = TokenEncryptionError

\* two key sources that stand for the same Fernet key decrypt each other's tokens
SameKeyOtherSource ==
  (crypt.op = "decrypt_other" /\ CreateFernet(crypt.k1) = CreateFernet(crypt.k2) /\ Serializable(crypt.token_data)) =>
    crypt.result.ok

\* a SchwabClient has just been built: its constructor returned and nothing has used it yet
JustConstructed == client.state = "constructed" /\ auth.outcome = "none"

\* C19: after SchwabClient construction, a token file that parsed as JSON
\* has become, at the same path, ciphertext that is classified as encrypted
\* and decrypts under the configured key to the original content; a file
\* that did not parse as JSON is unchanged; and constructing the client
\* again changes nothing further
C19_MigrationInPlaceOnce ==
  JustConstructed =>
    /\ client.before.kind = "json" =>
         /\ token_file.kind = "fernet"
         /\ IsEncryptedTokenFile(token_file)
         /\ DecryptTokens(client.key_source, token_file).ok
         /\ PyEq(DecryptTokens(client.key_source, token_file).value, JsonLoads(client.before.payload))
    /\ client.before.kind \notin {"absent", "json"} => token_file = client.before
    /\ client.earlier = "constructed" => token_file = client.before

\* a plaintext token file of two entries was replaced by its ciphertext under the configured key
C19_Witness ==
  /\ JustConstructed
  /\ client.before.kind = "json"
  /\ token_file = FernetEncrypt(CreateFernet(client.key_source), client.before.payload)
  /\ Len(DecryptTokens(client.key_source, token_file).value.c) = 2

\* a second construction has left the ciphertext of the first in place
ConstructedAgain ==
  /\ JustConstructed
  /\ client.earlier = "constructed"
  /\ token_file.kind = "fernet"
  /\ token_file = client.before

AuditIndexes == 1..Len(audit_log)

\* the audit log holds an entry of one of these event types for this strategy
Audited(event_types) == \E a \in AuditIndexes : audit_log[a].event_type \in event_types /\ audit_log[a].strategy = strategy

\* C20: when a strategy invocation returns, the audit log holds an entry for
\* every place_order call it made, for its start, and for its completion or
\* its failure
C20_OrdersAndStrategyEventsAudited ==
  pc \in {"returned", "raised"} =>
    /\ \A i \in CallIndexes : gateway[i].op = "place_order" =>
         \E a \in AuditIndexes : audit_log[a].event_type \in {"trade_initiated", "trade_executed", "trade_failed"} /\ audit_log[a].symbol = gateway[i].symbol
    /\ Audited({"strategy_started"})
    /\ pc = "returned" => Audited({"strategy_completed"})
    /\ pc = "raised" => Audited({"strategy_failed"})

\* C26: whenever SchwabClient.authenticate returns normally, it returns a
\* client and not None, whatever the token file decrypts to (an empty token
\* dictionary included), so get_client does not return None afterwards
C26_ReturnedClientIsNotNone ==
  auth.outcome = "returned" => client._client = "client"

\* the same of the calls that found no token file or one that decrypts to a non-empty value
C26_ExceptFalsyTokens ==
  (auth.outcome = "returned" /\ (auth.before.kind = "absent" \/ Truthy(DecryptTokens(client.key_source, auth.before).value))) =>
    client._client = "client"

\* C27: in every trading CLI command a strategy is executed with
\* dry_run=False only if --yes was given or the prompt was answered yes; when
\* the user declines, the command returns without executing a strategy and
\* without a place_order call
C27_RealTradeOnlyOnConsent ==
  request.via = "cli" =>
    /\ (strategy # "none" /\ ~dry_run) => consent \in {"yes", "confirmed"}
    /\ consent = "declined" =>
         /\ strategy = "none"
         /\ pc = "exited"
         /\ gateway = <<>>

\* a CLI command without --yes placed an order after the prompt was answered yes
C27_Witness ==
  /\ request.via = "cli"
  /\ consent = "confirmed"
  /\ ~dry_run
  /\ \E i \in CallIndexes : gateway[i].op = "place_order"

\* a CLI command was declined at the prompt
CliDeclined ==
  /\ request.via = "cli"
  /\ request.outcome = "cancelled"
  /\ consent = "declined"

\* the gateway calls that read the balances
BalanceReads == {i \in CallIndexes : gateway[i].op = "get_account_balances"}

\* where a symbol stands in the target allocation of the invocation
TargetIndex(symbol) == CHOOSE i \in 1..Len(params.target_allocation) : params.target_allocation[i].symbol = symbol

\* C23: when RebalanceStrategy.execute emits at least one action it reads
\* the balances a second time after the decision step, every trade value is
\* |L2*target - L2*current| with L2 the liquidation value of that second read
\* and current the weight computed from the first read, and the trades are
\* attempted one at a time in the iteration order of the target allocation
C23_SizedFromSecondRead ==
  (strategy = "rebalance" /\ Len(work) > 0 /\ pc \in {"loop", "returned", "raised"}) =>
    /\ BalanceReads = {2, 3}
    /\ \A i \in CallIndexes : gateway[i].op \in {"get_quote", "place_order"} => i > 3
    /\ pc = "raised" => (~gateway[3].ok /\ frames = <<>>)
    /\ pc # "raised" => (gateway[3].ok /\ params.total_value = gateway[3].liquidationValue)
    /\ \A k \in FrameIndexes :
         LET target == params.target_allocation[TargetIndex(frames[k].symbol)].pct
             current == DictGet(CalculateCurrentAllocation(params.positions, [liquidationValue |-> gateway[2].liquidationValue]), frames[k].symbol)
             L2 == gateway[3].liquidationValue
         IN /\ REq(frames[k].amount, RAbs(RSub(RMulInt(target, L2), RMulInt(current, L2))))
            /\ frames[k].elem = k
            /\ frames[k].symbol = work[k].symbol
    /\ \A j, k \in 1..Len(work) : j < k => TargetIndex(work[j].symbol) < TargetIndex(work[k].symbol)
    /\ \A i, j \in CallIndexes : (i < j /\ i > 3) => gateway[i].elem <= gateway[j].elem

\* two trades were sized from a second read that differs from the first, a sell among them
C23_Witness ==
  /\ strategy = "rebalance"
  /\ pc = "returned"
  /\ Len(frames) = 2
  /\ gateway[3].liquidationValue = 150
  /\ gateway[2].liquidationValue = 100
  /\ \E k \in 1..Len(work) : work[k].action = "sell"
  /\ \A k \in FrameIndexes : ~REq(frames[k].amount, RInt(0))

\* the target allocation is validated (every weight in (0, 1]) and the threshold is not negative
ValidatedRebalance ==
  /\ \A i \in 1..Len(params.target_allocation) : RLess(RInt(0), params.target_allocation[i].pct) /\ RLeq(params.target_allocation[i].pct, RInt(1))
  /\ RLeq(RInt(0), params.threshold)

\* a sell is emitted only for a symbol held with positive market value and
\* positive current weight, and no sell is sized above L2 * current weight
SellsWithinHolding ==
  /\ \A k \in 1..Len(work) : work[k].action = "sell" =>
       /\ RLess(RInt(0), work[k].current_allocation)
       /\ \E i \in 1..Len(params.positions) : params.positions[i].symbol = work[k].symbol /\ params.positions[i].marketValue > 0
  /\ \A k \in FrameIndexes : work[k].action = "sell" =>
       RLeq(frames[k].amount, RMulInt(work[k].current_allocation, params.total_value))

\* C29: for a validated target allocation and a threshold >= 0, the
\* rebalance engine emits a sell only for a symbol currently held with
\* positive market value (current weight > 0), and the dollar value of a sell
\* never exceeds L2 * current weight, L2 being the liquidation value used for
\* sizing
C29_SellsWithinHolding ==
  (strategy = "rebalance" /\ Len(work) > 0 /\ pc \in {"sizing", "loop", "returned"} /\ ValidatedRebalance) => SellsWithinHolding

\* the same when the liquidation value used for sizing is not negative
C29_UnlessInDebit ==
  (strategy = "rebalance" /\ Len(work) > 0 /\ pc \in {"loop", "returned"} /\ ValidatedRebalance /\ params.total_value >= 0) => SellsWithinHolding

\* the place_order calls of loop element e
OrdersOf(e) == {i \in CallIndexes : gateway[i].op = "place_order" /\ gateway[i].elem = e}

\* sum of shares * price over the frames whose step submitted an order
RECURSIVE Submitted(_)
Submitted(k) ==
  IF k = 0 THEN 0
  ELSE (IF OrdersOf(frames[k].elem) # {} THEN frames[k].shares * frames[k].price ELSE 0) + Submitted(k - 1)

\* the allotment of the position at index e of the eligible positions
Allotment(e) == RMulInt(RDivInt(RInt(work[e].marketValue), SumMarketValue(work)), params.cash_available)

\* C30: for equity positions with non-negative market values, one DRIP
\* invocation touches neither quotes nor orders when cash is below 10 or the
\* total eligible market value is 0; otherwise each eligible position is
\* allotted cash * (market value / total eligible market value), an allotment
\* below 5 leaves no result entry (and no call), every other allotment is
\* carried into the step, and the sum of shares * price over the submitted
\* orders never exceeds the cash read at the start
C30_ReinvestWithinCash ==
  (strategy = "drip" /\ pc \in {"loop", "returned"} /\ \A e \in 1..Len(work) : work[e].marketValue >= 0) =>
    /\ \A e \in 1..Len(work) : work[e].assetType = "EQUITY"
    /\ params.total_value = SumMarketValue(work)
    /\ (params.cash_available < 10 \/ SumMarketValue(work) = 0) =>
         /\ pc = "returned" /\ results = <<>> /\ frames = <<>>
         /\ \A i \in CallIndexes : gateway[i].op \notin {"get_quote", "place_order"}
    /\ (params.cash_available >= 10 /\ SumMarketValue(work) # 0) =>
         /\ \A e \in 1..Len(work) : e < idx =>
              IF RLess(Allotment(e), RInt(5))
                THEN /\ \A k \in ResultIndexes : origin[k] # e
                     /\ \A k \in FrameIndexes : frames[k].elem # e
                     /\ \A i \in CallIndexes : gateway[i].elem # e
                ELSE /\ \E k \in FrameIndexes : frames[k].elem = e /\ REq(frames[k].amount, Allotment(e)) /\ frames[k].symbol = work[e].symbol
                     /\ Cardinality({k \in ResultIndexes : origin[k] = e}) = 1
                     /\ Cardinality(OrdersOf(e)) <= 1
         /\ \A k \in FrameIndexes : OrdersOf(frames[k].elem) # {} =>
              \A i \in OrdersOf(frames[k].elem) : gateway[i].instruction = "BUY" /\ gateway[i].quantity = frames[k].shares /\ gateway[i].symbol = frames[k].symbol
    /\ Submitted(Len(frames)) <= params.cash_available

\* one allotment was passed over and the other one was submitted as an order
C30_Witness ==
  /\ strategy = "drip" /\ pc = "loop" /\ idx > Len(work) /\ Len(work) = 2 /\ ~dry_run
  /\ \E e \in 1..2 : RLess(Allotment(e), RInt(5)) /\ work[e].marketValue > 0
  /\ Len(frames) = 1 /\ OrdersOf(frames[1].elem) # {} /\ Submitted(1) > 0

\* the log calls made on instance i, in order
CallsBy(i) == SelectSeq(audit.calls, LAMBDA c : c.by = i)

\* shown is original with every character but the last 4 replaced by "*",
\* and all of them when there are no more than 4
Masked(original, shown) ==
  /\ Len(shown) = Len(original)
  /\ \A p \in 1..Len(original) :
       IF Len(original) <= 4 \/ p <= Len(original) - 4 THEN shown[p] = "*" ELSE shown[p] = original[p]

\* display tells the number of integer digits of amount and nothing else
MagnitudeOnly(amount, display) ==
  /\ Len(display) = Digits(PyInt(RAbs(amount))) + 4
  /\ display[1] = "$"
  /\ display[Len(display) - 2] = "."
  /\ \A p \in 2..Len(display) : p # Len(display) - 2 => display[p] = "*"

\* line is plain with the account number masked and an amount_display added
\* to the amount, at the top and in the nested details; nothing else differs
RECURSIVE RedactedAs(_, _)
RedactedAs(plain, line) ==
  /\ DOMAIN line = DOMAIN plain \cup (IF "amount" \in DOMAIN plain THEN {"amount_display"} ELSE {})
  /\ "account_number" \in DOMAIN plain => Masked(plain["account_number"], line["account_number"])
  /\ "amount" \in DOMAIN plain => (REq(line["amount"], plain["amount"]) /\ MagnitudeOnly(plain["amount"], line["amount_display"]))
  /\ "details" \in DOMAIN plain => RedactedAs(plain["details"], line["details"])
  /\ \A x \in DOMAIN plain \ {"account_number", "amount", "details"} : line[x] = plain[x]

\* entry carries the arguments of the call as they were given
Unredacted(entry, args) ==
  /\ args.account_number.some => entry["account_number"] = args.account_number.v
  /\ args.amount.some => entry["amount"] = args.amount.v
  /\ args.details.some => entry["details"] = args.details.v
  /\ "amount_display" \notin DOMAIN entry
  /\ DOMAIN entry \ {"_hash"} = {"timestamp", "event_type", "success", "pid"}
                                   \cup (IF args.account_number.some THEN {"account_number"} ELSE {})
                                   \cup (IF args.amount.some THEN {"amount"} ELSE {})
                                   \cup (IF args.details.some THEN {"details"} ELSE {})

Verifies(log) ==
  \A k \in 1..Len(log) :
    /\ "_hash" \in DOMAIN log[k]
    /\ log[k]["_hash"] = ComputeHash(IF k = 1 THEN None ELSE Some(log[k - 1]["_hash"]), DictDel(log[k], "_hash"))

\* one instance, with the default settings, is all that wrote
OneDefaultLogger ==
  /\ audit # NoAudit
  /\ ~audit.loggers[2].constructed
  /\ audit.loggers[1].redact_sensitive
  /\ audit.loggers[1].include_hash_chain

\* C22: the log persisted by one AuditLogger with the default settings
\* (redaction and hash chain enabled) verifies when the hash chain is
\* recomputed from it
C22_PersistedLogVerifies ==
  OneDefaultLogger => Verifies(audit.files["audit.log"])

\* log with field x of entry k removed
Tampered(log, k, x) == [log EXCEPT ![k] = DictDel(log[k], x)]

\* the same for one instance without redaction, together with the detection
\* of a field removed from any entry
C22_VerifiesWithoutRedaction ==
  (audit # NoAudit /\ ~audit.loggers[2].constructed /\ ~audit.loggers[1].redact_sensitive /\ audit.loggers[1].include_hash_chain) =>
    LET log == audit.files["audit.log"]
    IN /\ Verifies(log)
       /\ \A k \in 1..Len(log) : \A x \in DOMAIN log[k] : ~Verifies(Tampered(log, k, x))

\* C24: an entry persisted by a redacting instance is the returned entry with
\* every account number masked (all characters but the last 4 replaced by
\* "*", all of them up to length 4) and every numeric amount kept and joined
\* by a magnitude-only amount_display, at the top level and in the nested
\* details; the entry returned to the caller keeps the values as given
C24_PersistedRedacted ==
  audit # NoAudit =>
    /\ \A f \in AuditFiles : \A k \in 1..Len(audit.files[f]) :
         LET line == audit.files[f][k]
             call == audit.calls[line["timestamp"]]
         IN audit.loggers[call.by].redact_sensitive =>
              /\ call.returned
              /\ RedactedAs(call.entry, line)
    /\ \A j \in 1..Len(audit.calls) : Unredacted(audit.calls[j].entry, audit.calls[j].args)

\* a persisted entry with a short account number at the top, a long one in
\* the details and amounts at both levels
C24_Witness ==
  /\ audit # NoAudit
  /\ \E f \in AuditFiles : \E k \in 1..Len(audit.files[f]) :
       LET line == audit.files[f][k]
       IN /\ audit.loggers[audit.calls[line["timestamp"]].by].redact_sensitive
          /\ "details" \in DOMAIN line /\ "account_number" \in DOMAIN line /\ "amount" \in DOMAIN line
          /\ line["account_number"] = <<"*", "*", "*">>
          /\ "account_number" \in DOMAIN line["details"]
          /\ line["details"]["account_number"] = <<"*", "*", "3", "4", "5", "6">>
          /\ "amount_display" \in DOMAIN line["details"]

\* C28: every entry logged through an instance is appended to the log_file
\* of that instance and to no other file, whatever instances were
\* constructed in between
C28_OwnFileOnly ==
  audit # NoAudit =>
    /\ \A j \in 1..Len(audit.calls) :
         audit.calls[j].returned => audit.calls[j].wrote = <<audit.loggers[audit.calls[j].by].log_file>>
    /\ \A f \in AuditFiles : \A k \in 1..Len(audit.files[f]) :
         audit.loggers[audit.calls[audit.files[f][k]["timestamp"]].by].log_file = f

\* the same while the instances share one file
C28_WhileOneFile ==
  (audit # NoAudit /\ (audit.loggers[2].constructed => audit.loggers[2].log_file = audit.loggers[1].log_file)) =>
    \A f \in AuditFiles : \A k \in 1..Len(audit.files[f]) :
      audit.loggers[audit.calls[audit.files[f][k]["timestamp"]].by].log_file = f

\* the orders for symbol that reached the broker from invocation t
OrdersBy(t, symbol) == {o \in 1..Len(race.orders) : race.orders[o].by = t /\ race.orders[o].symbol = symbol}

\* no invocation is ever held back by the other one
NeverHeldBack ==
  \A t \in Invocations :
    /\ race.threads[t].pc = "idle" => ENABLED (RaceRequest(t) /\ UNCHANGED <<env, loaded, token_file, temp_files, client, auth, crypt, audit_log, consent, audit, engine>>)
    /\ race.threads[t].pc \notin {"idle", "done"} => ENABLED (RaceStep(t) /\ UNCHANGED <<env, loaded, token_file, temp_files, client, auth, crypt, audit_log, consent, audit, engine>>)

\* every order is sized from what its own invocation read, whatever the
\* broker has booked since
SizedFromOwnReads ==
  \A o \in 1..Len(race.orders) :
    LET order == race.orders[o]
        thread == race.threads[order.by]
        action == thread.actions[order.elem]
        current == DictGet(CalculateCurrentAllocation(thread.positions, [liquidationValue |-> thread.liquidationValue]), order.symbol)
        value == RAbs(RSub(RMulInt(action.target_allocation, thread.total_value), RMulInt(current, thread.total_value)))
    IN /\ action.symbol = order.symbol
       /\ order.quantity = PyInt(RDivInt(value, order.price))
       /\ order.instruction = IF RLess(current, action.target_allocation) THEN "BUY" ELSE "SELL"
       /\ ~thread.dry_run

\* C25: the core does not serialize two invocations on one account: an
\* invocation can always take its next step while the other one is under
\* way, and its orders are sized from its own reads even when the other
\* invocation has placed orders since (the interleaving of the claim is the
\* state C25_Witness)
C25_NotSerialized ==
  race # NoRace => (NeverHeldBack /\ SizedFromOwnReads)

\* both invocations read the same positions and balances before either
\* placed an order, and both then placed an order for SPY of the same size
C25_Witness ==
  /\ race # NoRace
  /\ \A t \in Invocations : race.threads[t].seen = 0 /\ race.threads[t].sized = 0 /\ race.threads[t].pc = "done"
  /\ race.threads[1].positions = race.threads[2].positions
  /\ race.threads[1].liquidationValue = race.threads[2].liquidationValue
  /\ race.threads[1].total_value = race.threads[2].total_value
  /\ \E a \in OrdersBy(1, SPY), b \in OrdersBy(2, SPY) :
       /\ race.orders[a].ok /\ race.orders[b].ok
       /\ race.orders[a].instruction = "SELL" /\ race.orders[b].instruction = "SELL"
       /\ race.orders[a].quantity = race.orders[b].quantity
       /\ race.orders[a].quantity > 0

====
